---- MODULE Spec2Model ----
(***************************************************************************)
(* A state-machine model of clox (src/clox/src): the single-pass compiler, *)
(* the bytecode VM with closures and upvalues, the interned strings and    *)
(* the open-addressing hash table.  C functions are operators that keep    *)
(* their C names; a function that updates a structure through a pointer    *)
(* returns the updated structure.  Pointers to heap objects are indices    *)
(* into root.objects (0 is the null pointer), pointers into the value      *)
(* stack are slot numbers.                                                 *)
(***************************************************************************)
EXTENDS Integers, Sequences, FiniteSets, TLC

\* The null pointer.
NULL == 0

(***************************************************************************)
(* value.h: the tagged value_t                                             *)
(***************************************************************************)
NIL_VALUE == [type |-> "NIL", as |-> 0]
BOOL_VALUE(b) == [type |-> "BOOL", as |-> IF b THEN 1 ELSE 0]
NUMBER_VALUE(n) == [type |-> "NUMBER", as |-> n]
OBJECT_VALUE(o) == [type |-> "OBJECT", as |-> o]

IS_NIL(v) == v.type = "NIL"
IS_BOOL(v) == v.type = "BOOL"
IS_NUMBER(v) == v.type = "NUMBER"
IS_OBJECT(v) == v.type = "OBJECT"
AS_BOOL(v) == v.as = 1

\* OBJECT_TYPE(value) == ty, for a value that may not be an object at all
IS_OBJECT_TYPE(objects, v, ty) ==
    /\ IS_OBJECT(v)
    /\ objects[v.as].type = ty

IS_STRING(objects, v) == IS_OBJECT_TYPE(objects, v, "OBJECT_TYPE_STRING")

\* value.c: only nil and false are falsey
value_is_falsey(v) ==
    \/ IS_NIL(v)
    \/ (IS_BOOL(v) /\ ~AS_BOOL(v))

\* value.c / object.c: objects compare by pointer identity
values_equal(a, b) ==
    IF a.type # b.type THEN FALSE
    ELSE CASE a.type = "NIL" -> TRUE
           [] a.type = "BOOL" -> AS_BOOL(a) = AS_BOOL(b)
           [] a.type = "NUMBER" -> a.as = b.as
           [] a.type = "OBJECT" -> a.as = b.as

(***************************************************************************)
(* hash.c: FNV-1a over uint32_t.  A uint32_t is kept as two 16-bit limbs   *)
(* so that every intermediate product fits the model checker's integers.   *)
(***************************************************************************)
UInt32(hi, lo) == [hi |-> hi, lo |-> lo]

\* 2166136261u = 0x811C9DC5
FNV_OFFSET_BASIS == UInt32(33052, 40389)

\* 16777619 = 0x01000193
FNV_PRIME == UInt32(256, 403)

\* a ^ b on two bytes, bit by bit
XorBits(a, b) ==
    LET bit(k) == k * (((a \div k) + (b \div k)) % 2)
    IN ((bit(1) + bit(2)) + (bit(4) + bit(8)))
           + ((bit(16) + bit(32)) + (bit(64) + bit(128)))

\* hash ^= data[i]
XorByte(h, byte) == UInt32(h.hi, (h.lo \div 256) * 256 + XorBits(h.lo % 256, byte))

\* hash *= 16777619 (mod 2^32)
MulPrime(h) ==
    LET low == h.lo * FNV_PRIME.lo
    IN UInt32((h.hi * FNV_PRIME.lo + h.lo * FNV_PRIME.hi + (low \div 65536)) % 65536, low % 65536)

\* the for loop from byte i on; hash is a uint32_t at every iteration
RECURSIVE hash_bytes_from(_, _, _)
hash_bytes_from(data, i, hash) ==
    IF i > Len(data) \/ hash.hi > 65535 THEN hash
    ELSE hash_bytes_from(data, i + 1, MulPrime(XorByte(hash, data[i])))

hash_bytes(data) == hash_bytes_from(data, 1, FNV_OFFSET_BASIS)

hash_string(chars) == hash_bytes(chars)

\* value.c hash_value / object.c hash_object, for the key types the tables
\* of this program hold (strings) and for booleans
hash_value(objects, v) ==
    CASE IS_NIL(v) -> UInt32(0, 42)
      [] IS_BOOL(v) -> UInt32(0, v.as)
      [] IS_STRING(objects, v) -> objects[v.as].hash

\* hash % capacity
UInt32Mod(h, capacity) == ((h.hi % capacity) * (65536 % capacity) + h.lo) % capacity

(***************************************************************************)
(* table.c: open addressing, linear probing, tombstones.                   *)
(* table_t is [capacity, count, entries]; entries[i + 1] is C's entries[i] *)
(***************************************************************************)
EMPTY_ENTRY == [key |-> NIL_VALUE, value |-> NIL_VALUE]
TOMBSTONE == [key |-> NIL_VALUE, value |-> BOOL_VALUE(TRUE)]

table_init == [capacity |-> 0, count |-> 0, entries |-> << >>]

\* memory.h
GROW_CAPACITY(capacity) == IF capacity < 8 THEN 8 ELSE capacity * 2

\* the probe loop of find_entry; tombstone = -1 is the C NULL
RECURSIVE find_entry_probe(_, _, _, _)
find_entry_probe(table, key, index, tombstone) ==
    LET entry == table.entries[index + 1]
    IN IF IS_NIL(entry.key)
       THEN IF IS_NIL(entry.value)
            THEN (IF tombstone # -1 THEN tombstone ELSE index)
            ELSE find_entry_probe(table, key, (index + 1) % table.capacity,
                                  IF tombstone = -1 THEN index ELSE tombstone)
       ELSE IF values_equal(entry.key, key)
            THEN index
            ELSE find_entry_probe(table, key, (index + 1) % table.capacity, tombstone)

find_entry(objects, table, key) ==
    find_entry_probe(table, key, UInt32Mod(hash_value(objects, key), table.capacity), -1)

RECURSIVE find_entry_by_string_probe(_, _, _, _, _, _)
find_entry_by_string_probe(objects, table, chars, hash, index, tombstone) ==
    LET entry == table.entries[index + 1]
        next == (index + 1) % table.capacity
    IN IF IS_NIL(entry.key)
       THEN IF IS_NIL(entry.value)
            THEN (IF tombstone # -1 THEN tombstone ELSE index)
            ELSE find_entry_by_string_probe(objects, table, chars, hash, next,
                                            IF tombstone = -1 THEN index ELSE tombstone)
       ELSE IF /\ IS_STRING(objects, entry.key)
               /\ objects[entry.key.as].hash = hash
               /\ Len(objects[entry.key.as].chars) = Len(chars)
               /\ objects[entry.key.as].chars = chars
            THEN index
            ELSE find_entry_by_string_probe(objects, table, chars, hash, next, tombstone)

find_entry_by_string(objects, table, chars) ==
    LET probe(hash) ==
            find_entry_by_string_probe(objects, table, chars, hash,
                                       UInt32Mod(hash, table.capacity), -1)
    IN probe(hash_string(chars))

RECURSIVE adjust_capacity_rebuild(_, _, _, _)
adjust_capacity_rebuild(objects, old, new, i) ==
    IF i >= old.capacity THEN new
    ELSE LET src == old.entries[i + 1]
         IN IF IS_NIL(src.key)
            THEN adjust_capacity_rebuild(objects, old, new, i + 1)
            ELSE LET dest == find_entry(objects, new, src.key)
                 IN adjust_capacity_rebuild(objects, old,
                        [new EXCEPT !.entries[dest + 1] = src, !.count = @ + 1], i + 1)

adjust_capacity(objects, table, new_capacity) ==
    adjust_capacity_rebuild(objects, table,
        [capacity |-> new_capacity, count |-> 0,
         entries |-> [i \in 1..new_capacity |-> EMPTY_ENTRY]], 0)

\* returns [found, value]
table_get(objects, table, key) ==
    IF IS_NIL(key) \/ table.count = 0
    THEN [found |-> FALSE, value |-> NIL_VALUE]
    ELSE LET get(entry) ==
                 IF IS_NIL(entry.key)
                 THEN [found |-> FALSE, value |-> NIL_VALUE]
                 ELSE [found |-> TRUE, value |-> entry.value]
         IN get(table.entries[find_entry(objects, table, key) + 1])

\* returns [found, key (the string object), value]
table_get_by_string(objects, table, chars) ==
    IF table.count = 0
    THEN [found |-> FALSE, key |-> NULL, value |-> NIL_VALUE]
    ELSE LET get(entry) ==
                 IF IS_NIL(entry.key)
                 THEN [found |-> FALSE, key |-> NULL, value |-> NIL_VALUE]
                 ELSE [found |-> TRUE, key |-> entry.key.as, value |-> entry.value]
         IN get(table.entries[find_entry_by_string(objects, table, chars) + 1])

\* table_set that counts a key written over a tombstone too
table_set_with_tombstone_count(objects, table, key, value) ==
    IF IS_NIL(key) THEN [table |-> table, is_new |-> FALSE]
    ELSE LET write(grown, index, entry) ==
                 [table |-> [grown EXCEPT
                                !.count = IF IS_NIL(entry.key) THEN @ + 1 ELSE @,
                                !.entries[index + 1] = [key |-> key, value |-> value]],
                  is_new |-> IS_NIL(entry.key)]
             at(grown, index) == write(grown, index, grown.entries[index + 1])
             find(grown) == at(grown, find_entry(objects, grown, key))
         IN find(IF 4 * (table.count + 1) > 3 * table.capacity
                 THEN adjust_capacity(objects, table, GROW_CAPACITY(table.capacity))
                 ELSE table)

\* table_set that grows only when there is no bucket left
table_set_when_full(objects, table, key, value) ==
    IF IS_NIL(key) THEN [table |-> table, is_new |-> FALSE]
    ELSE LET write(grown, index, entry) ==
                 LET is_new == IS_NIL(entry.key)
                     is_tombstone == IS_NIL(entry.key) /\ IS_BOOL(entry.value)
                                        /\ AS_BOOL(entry.value)
                 IN [table |-> [grown EXCEPT
                                   !.count = IF is_new /\ ~is_tombstone THEN @ + 1 ELSE @,
                                   !.entries[index + 1] = [key |-> key, value |-> value]],
                     is_new |-> is_new]
             at(grown, index) == write(grown, index, grown.entries[index + 1])
             find(grown) == at(grown, find_entry(objects, grown, key))
         IN find(IF table.count + 1 > table.capacity - 1
                 THEN adjust_capacity(objects, table, GROW_CAPACITY(table.capacity))
                 ELSE table)

\* grows when count + 1 > capacity * 0.75; returns [table, is_new]
table_set(objects, table, key, value) ==
    IF IS_NIL(key) THEN [table |-> table, is_new |-> FALSE]
    ELSE LET write(grown, index, entry) ==
                 LET is_new == IS_NIL(entry.key)
                     is_tombstone == IS_NIL(entry.key) /\ IS_BOOL(entry.value)
                                        /\ AS_BOOL(entry.value)
                 IN [table |-> [grown EXCEPT
                                   !.count = IF is_new /\ ~is_tombstone THEN @ + 1 ELSE @,
                                   !.entries[index + 1] = [key |-> key, value |-> value]],
                     is_new |-> is_new]
             at(grown, index) == write(grown, index, grown.entries[index + 1])
             find(grown) == at(grown, find_entry(objects, grown, key))
         IN find(IF 4 * (table.count + 1) > 3 * table.capacity
                 THEN adjust_capacity(objects, table, GROW_CAPACITY(table.capacity))
                 ELSE table)

\* table_delete that empties the bucket instead of leaving a tombstone
table_delete_without_tombstone(objects, table, key) ==
    IF IS_NIL(key) \/ table.count = 0 THEN [table |-> table, deleted |-> FALSE]
    ELSE LET delete(index) ==
                 IF IS_NIL(table.entries[index + 1].key)
                 THEN [table |-> table, deleted |-> FALSE]
                 ELSE [table |-> [table EXCEPT !.entries[index + 1] = EMPTY_ENTRY],
                       deleted |-> TRUE]
         IN delete(find_entry(objects, table, key))

\* returns [table, deleted]
table_delete(objects, table, key) ==
    IF IS_NIL(key) \/ table.count = 0 THEN [table |-> table, deleted |-> FALSE]
    ELSE LET delete(index) ==
                 IF IS_NIL(table.entries[index + 1].key)
                 THEN [table |-> table, deleted |-> FALSE]
                 ELSE [table |-> [table EXCEPT !.entries[index + 1] = TOMBSTONE],
                       deleted |-> TRUE]
         IN delete(find_entry(objects, table, key))

(***************************************************************************)
(* The words programs are written in, with their ASCII bytes.  The input   *)
(* of the compiler is a sequence of words; "\n" ends a source line.        *)
(***************************************************************************)
Ascii ==
    ("clock" :> <<99, 108, 111, 99, 107>>) @@
    ("dump" :> <<100, 117, 109, 112>>) @@
    ("printf" :> <<112, 114, 105, 110, 116, 102>>) @@
    ("tostring" :> <<116, 111, 115, 116, 114, 105, 110, 103>>) @@
    ("assert" :> <<97, 115, 115, 101, 114, 116>>) @@
    ("" :> << >>) @@
    ("a" :> <<97>>) @@
    ("b" :> <<98>>) @@
    ("c" :> <<99>>) @@
    ("f" :> <<102>>) @@
    ("g" :> <<103>>) @@
    ("j" :> <<106>>) @@
    ("z" :> <<122>>) @@
    ("ab" :> <<97, 98>>) @@
    ("ba" :> <<98, 97>>) @@
    ("(" :> <<40>>) @@
    (")" :> <<41>>) @@
    ("{" :> <<123>>) @@
    ("}" :> <<125>>) @@
    (";" :> <<59>>) @@
    ("," :> <<44>>) @@
    ("." :> <<46>>) @@
    ("-" :> <<45>>) @@
    ("+" :> <<43>>) @@
    ("/" :> <<47>>) @@
    ("*" :> <<42>>) @@
    ("!" :> <<33>>) @@
    ("!=" :> <<33, 61>>) @@
    ("=" :> <<61>>) @@
    ("==" :> <<61, 61>>) @@
    ("<" :> <<60>>) @@
    ("<=" :> <<60, 61>>) @@
    (">" :> <<62>>) @@
    (">=" :> <<62, 61>>) @@
    ("?" :> <<63>>) @@
    (":" :> <<58>>) @@
    ("and" :> <<97, 110, 100>>) @@
    ("break" :> <<98, 114, 101, 97, 107>>) @@
    ("class" :> <<99, 108, 97, 115, 115>>) @@
    ("continue" :> <<99, 111, 110, 116, 105, 110, 117, 101>>) @@
    ("else" :> <<101, 108, 115, 101>>) @@
    ("false" :> <<102, 97, 108, 115, 101>>) @@
    ("for" :> <<102, 111, 114>>) @@
    ("fun" :> <<102, 117, 110>>) @@
    ("if" :> <<105, 102>>) @@
    ("nil" :> <<110, 105, 108>>) @@
    ("or" :> <<111, 114>>) @@
    ("print" :> <<112, 114, 105, 110, 116>>) @@
    ("return" :> <<114, 101, 116, 117, 114, 110>>) @@
    ("super" :> <<115, 117, 112, 101, 114>>) @@
    ("this" :> <<116, 104, 105, 115>>) @@
    ("true" :> <<116, 114, 117, 101>>) @@
    ("var" :> <<118, 97, 114>>) @@
    ("while" :> <<119, 104, 105, 108, 101>>) @@
    ("const" :> <<99, 111, 110, 115, 116>>) @@
    ("switch" :> <<115, 119, 105, 116, 99, 104>>) @@
    ("case" :> <<99, 97, 115, 101>>) @@
    ("default" :> <<100, 101, 102, 97, 117, 108, 116>>) @@
    ("cun" :> <<99, 117, 110>>) @@
    ("cor" :> <<99, 111, 114>>) @@
    ("calse" :> <<99, 97, 108, 115, 101>>) @@
    ("fa" :> <<102, 97>>) @@
    ("classy" :> <<99, 108, 97, 115, 115, 121>>) @@
    ("0" :> <<48>>) @@
    ("1" :> <<49>>) @@
    ("2" :> <<50>>) @@
    ("3" :> <<51>>) @@
    ("7" :> <<55>>) @@
    ("\"\"" :> <<34, 34>>) @@
    ("\"a\"" :> <<34, 97, 34>>) @@
    ("\"b\"" :> <<34, 98, 34>>)

(***************************************************************************)
(* object.h / object.c: heap objects.  root is object_root_t:              *)
(* [objects, open_upvalues, strings]; objects lists every object in        *)
(* allocation order and an object pointer is its position in that list.    *)
(***************************************************************************)
object_root_init == [objects |-> << >>, open_upvalues |-> NULL, strings |-> table_init]

\* the target of a closed upvalue points at its own `closed` field
TARGET_CLOSED == -1

\* create_object: allocate and link; returns [root, object]
create_object(root, obj) ==
    [root |-> [root EXCEPT !.objects = Append(@, obj)],
     object |-> Len(root.objects) + 1]

\* create_string_object without the lookup in the intern table
create_string_object_without_lookup(root, chars) ==
    LET intern(created) ==
            [root |-> [created.root EXCEPT !.strings =
                          table_set(created.root.objects, created.root.strings,
                                    OBJECT_VALUE(created.object), NIL_VALUE).table],
             object |-> created.object]
    IN intern(create_object(root, [type |-> "OBJECT_TYPE_STRING", chars |-> chars,
                                   hash |-> hash_string(chars)]))

create_string_object(root, chars) ==
    LET intern(created) ==
            [root |-> [created.root EXCEPT !.strings =
                          table_set(created.root.objects, created.root.strings,
                                    OBJECT_VALUE(created.object), NIL_VALUE).table],
             object |-> created.object]
        lookup(existing) ==
            IF existing.found
            THEN [root |-> root, object |-> existing.key]
            ELSE intern(create_object(root, [type |-> "OBJECT_TYPE_STRING", chars |-> chars,
                                             hash |-> hash_string(chars)]))
    IN lookup(table_get_by_string(root.objects, root.strings, chars))

create_native_object(root, name, arity) ==
    create_object(root, [type |-> "OBJECT_TYPE_NATIVE", name |-> name, arity |-> arity])

chunk_init == [code |-> << >>, line_infos |-> << >>, values |-> << >>]

create_function_object(root) ==
    create_object(root, [type |-> "OBJECT_TYPE_FUNCTION", name |-> NULL, arity |-> 0,
                         upvalue_count |-> 0, chunk |-> chunk_init])

create_closure_object(root, function) ==
    create_object(root, [type |-> "OBJECT_TYPE_CLOSURE", function |-> function,
                         upvalues |-> [i \in 1..root.objects[function].upvalue_count |-> NULL]])

\* origin is a history field: the push that created the captured slot
create_upvalue_object(root, target, origin) ==
    create_object(root, [type |-> "OBJECT_TYPE_UPVALUE", target |-> target,
                         closed |-> NIL_VALUE, next |-> NULL, origin |-> origin])

(***************************************************************************)
(* vm.c: vm_t is [frames, frame_count, stack, sp, root, globals,           *)
(* has_runtime_error].  stack holds the slots written so far (slots above  *)
(* sp keep their stale values), sp counts the live slots.  The slots are   *)
(* kept in rows of STACK_ROW slots, slot 0 first; all rows but the last    *)
(* are full.  Model fields: out is what the program printed, aborted says  *)
(* that an assert() failed and ended the process, born numbers the push    *)
(* that filled each slot.                                                  *)
(***************************************************************************)
VM_FRAMES_MAX == 256
UINT8_MAX == 255
VM_STACK_MAX == VM_FRAMES_MAX * UINT8_MAX

\* the arity of a variadic native
SIZE_MAX == 2147483647

STACK_ROW == UINT8_MAX + 1

\* the number of slots in the rows
rows_count(rows) ==
    IF rows = << >> THEN 0 ELSE (Len(rows) - 1) * STACK_ROW + Len(rows[Len(rows)])

\* slot i
rows_get(rows, i) == rows[(i \div STACK_ROW) + 1][(i % STACK_ROW) + 1]

\* slot i becomes value; i is a slot of the rows or the first one behind them
rows_set(rows, i, value) ==
    IF i < rows_count(rows)
    THEN [rows EXCEPT ![(i \div STACK_ROW) + 1][(i % STACK_ROW) + 1] = value]
    ELSE IF i % STACK_ROW = 0 THEN Append(rows, <<value>>)
    ELSE [rows EXCEPT ![Len(rows)] = Append(@, value)]

\* the rows of count slots, slot i holding slots[i]
rows_build(count, slots) ==
    [r \in 1..((count + STACK_ROW - 1) \div STACK_ROW) |->
        [k \in 1..(IF r * STACK_ROW <= count THEN STACK_ROW
                                            ELSE count - (r - 1) * STACK_ROW) |->
            slots[(r - 1) * STACK_ROW + k - 1]]]

\* the rows with the slots up to slot count - 1; a new slot holds fill
rows_extend(rows, count, fill) ==
    rows_build(count, [i \in 0..(count - 1) |->
                          IF i < rows_count(rows) THEN rows_get(rows, i) ELSE fill])

vm_stack_push(m, value) ==
    IF m.sp = VM_STACK_MAX THEN [m EXCEPT !.aborted = TRUE]
    ELSE [m EXCEPT !.stack = rows_set(@, m.sp, value),
                   !.born = rows_set(@, m.sp, m.pushes + 1),
                   !.pushes = @ + 1,
                   !.sp = @ + 1]

\* the popped value is vm_stack_peek(m, 0) of the state before
vm_stack_pop(m) ==
    IF m.sp = 0 THEN [m EXCEPT !.aborted = TRUE]
    ELSE [m EXCEPT !.sp = @ - 1]

vm_stack_peek(m, offset) == rows_get(m.stack, m.sp - offset - 1)

RECURSIVE capture_upvalue_skip(_, _, _, _)
capture_upvalue_skip(objects, target, previous, current) ==
    IF current # NULL /\ objects[current].target > target
    THEN capture_upvalue_skip(objects, target, current, objects[current].next)
    ELSE [previous |-> previous, current |-> current]

\* capture_upvalue without the search for a listed upvalue of the same slot
capture_upvalue_without_reuse(m, target) ==
    LET link(at, created) ==
            [vm |-> [m EXCEPT !.root =
                        [(IF at.previous = NULL
                          THEN [created.root EXCEPT !.open_upvalues = created.object]
                          ELSE [created.root EXCEPT
                                   !.objects[at.previous].next = created.object])
                         EXCEPT !.objects[created.object].next = at.current]],
             upvalue |-> created.object]
        insert(at) == link(at, create_upvalue_object(m.root, target, rows_get(m.born, target)))
    IN insert(capture_upvalue_skip(m.root.objects, target, NULL, m.root.open_upvalues))

\* returns [vm, upvalue]
capture_upvalue(m, target) ==
    LET link(at, created) ==
            [vm |-> [m EXCEPT !.root =
                        [(IF at.previous = NULL
                          THEN [created.root EXCEPT !.open_upvalues = created.object]
                          ELSE [created.root EXCEPT
                                   !.objects[at.previous].next = created.object])
                         EXCEPT !.objects[created.object].next = at.current]],
             upvalue |-> created.object]
        insert(at) ==
            IF at.current # NULL /\ m.root.objects[at.current].target = target
            THEN [vm |-> m, upvalue |-> at.current]
            ELSE link(at, create_upvalue_object(m.root, target, rows_get(m.born, target)))
    IN insert(capture_upvalue_skip(m.root.objects, target, NULL, m.root.open_upvalues))

\* close_upvalue that leaves the upvalue of the slot itself open
RECURSIVE close_upvalue_above(_, _)
close_upvalue_above(m, target) ==
    LET upvalue == m.root.open_upvalues
    IN IF upvalue # NULL /\ m.root.objects[upvalue].target > target
       THEN close_upvalue_above(
                [m EXCEPT !.root.objects[upvalue].closed = rows_get(m.stack, m.root.objects[upvalue].target),
                          !.root.objects[upvalue].target = TARGET_CLOSED,
                          !.root.open_upvalues = m.root.objects[upvalue].next],
                target)
       ELSE m

RECURSIVE close_upvalue(_, _)
close_upvalue(m, target) ==
    LET upvalue == m.root.open_upvalues
    IN IF upvalue # NULL /\ m.root.objects[upvalue].target >= target
       THEN close_upvalue(
                [m EXCEPT !.root.objects[upvalue].closed = rows_get(m.stack, m.root.objects[upvalue].target),
                          !.root.objects[upvalue].target = TARGET_CLOSED,
                          !.root.open_upvalues = m.root.objects[upvalue].next],
                target)
       ELSE m

register_native(m, name, arity) ==
    LET define(pushed) ==
            vm_stack_pop(vm_stack_pop(
                [pushed EXCEPT !.globals =
                    table_set(pushed.root.objects, pushed.globals,
                              vm_stack_peek(pushed, 1), vm_stack_peek(pushed, 0)).table]))
        push(string, native) ==
            define(vm_stack_push(vm_stack_push([m EXCEPT !.root = native.root],
                                               OBJECT_VALUE(string.object)),
                                 OBJECT_VALUE(native.object)))
        create(string) == push(string, create_native_object(string.root, name, arity))
    IN IF m.aborted THEN m ELSE create(create_string_object(m.root, Ascii[name]))

vm_create ==
    LET zeroed == [frames |-> << >>, frame_count |-> 0, stack |-> << >>, sp |-> 0,
                   root |-> object_root_init, globals |-> table_init,
                   has_runtime_error |-> FALSE,
                   out |-> << >>, aborted |-> FALSE, born |-> << >>, pushes |-> 0]
    IN register_native(register_native(register_native(register_native(register_native(
           zeroed, "clock", 0), "dump", SIZE_MAX), "printf", SIZE_MAX), "tostring", 1),
           "assert", 1)

(***************************************************************************)
(* chunk.h: the opcodes, numbered as the enum numbers them.                *)
(***************************************************************************)
OP_CONST == 1
OP_CONST_LONG == 2
OP_NIL == 3
OP_TRUE == 4
OP_FALSE == 5
OP_NOT == 6
OP_NEGATE == 7
OP_EQUAL == 8
OP_GREATER == 9
OP_LESS == 10
OP_ADD == 11
OP_SUB == 12
OP_MUL == 13
OP_DIV == 14
OP_DEFINE_GLOBAL == 15
OP_DEFINE_GLOBAL_LONG == 16
OP_GET_GLOBAL == 17
OP_GET_GLOBAL_LONG == 18
OP_SET_GLOBAL == 19
OP_SET_GLOBAL_LONG == 20
OP_GET_LOCAL == 21
OP_GET_LOCAL_LONG == 22
OP_SET_LOCAL == 23
OP_SET_LOCAL_LONG == 24
OP_GET_UPVALUE == 25
OP_GET_UPVALUE_LONG == 26
OP_SET_UPVALUE == 27
OP_SET_UPVALUE_LONG == 28
OP_JUMP == 29
OP_JUMP_IF_TRUE == 30
OP_JUMP_IF_FALSE == 31
OP_POP == 32
OP_CALL == 33
OP_RETURN == 34
OP_CLOSURE == 35
OP_CLOSE_UPVALUE == 36
OP_PRINT == 37

(***************************************************************************)
(* chunk.c.  chunk_t is [code, line_infos, values]; code[i + 1] is C's     *)
(* code[i], and the counts are the lengths of the sequences.               *)
(***************************************************************************)
\* the assert of chunk_write8: lines arrive in order
chunk_lines_ordered(chunk, line) ==
    Len(chunk.line_infos) > 0 => line >= chunk.line_infos[Len(chunk.line_infos)].line

\* chunk_write8 that opens a run for a new line and counts no further byte
chunk_write8_without_run_count(chunk, data, line) ==
    [chunk EXCEPT
        !.code = Append(@, data),
        !.line_infos = IF Len(@) > 0 /\ @[Len(@)].line = line
                       THEN @
                       ELSE Append(@, [line |-> line, bytes |-> 1])]

chunk_write8(chunk, data, line) ==
    [chunk EXCEPT
        !.code = Append(@, data),
        !.line_infos = IF Len(@) > 0 /\ @[Len(@)].line = line
                       THEN [@ EXCEPT ![Len(@)].bytes = @ + 1]
                       ELSE Append(@, [line |-> line, bytes |-> 1])]

\* the four bytes of a uint32_t as memcpy lays them out (little endian)
chunk_write32(chunk, data, line) ==
    chunk_write8(chunk_write8(chunk_write8(chunk_write8(chunk,
        data % 256, line), (data \div 256) % 256, line),
        (data \div 65536) % 256, line), (data \div 16777216) % 256, line)

chunk_read8(chunk, offset) == chunk.code[offset + 1]

\* the search loop of chunk_add_value: the index of an equal value, or -1
RECURSIVE chunk_find_value(_, _, _)
chunk_find_value(values, value, i) ==
    IF i >= Len(values) THEN -1
    ELSE IF values_equal(value, values[i + 1]) THEN i
    ELSE chunk_find_value(values, value, i + 1)

\* chunk_add_value without the search for an equal value
chunk_add_value_without_search(chunk, value) ==
    [chunk |-> [chunk EXCEPT !.values = Append(@, value)],
     index |-> Len(chunk.values)]

\* returns [chunk, index]
chunk_add_value(chunk, value) ==
    LET add(existing) ==
            IF existing # -1
            THEN [chunk |-> chunk, index |-> existing]
            ELSE [chunk |-> [chunk EXCEPT !.values = Append(@, value)],
                  index |-> Len(chunk.values)]
    IN add(chunk_find_value(chunk.values, value, 0))

RECURSIVE chunk_get_line_for_offset_from(_, _, _, _)
chunk_get_line_for_offset_from(chunk, offset, i, current_offset) ==
    IF i > Len(chunk.line_infos) THEN 0
    ELSE IF offset < current_offset + chunk.line_infos[i].bytes
         THEN chunk.line_infos[i].line
         ELSE chunk_get_line_for_offset_from(chunk, offset, i + 1,
                  current_offset + chunk.line_infos[i].bytes)

\* 0 stands for the failed assert at the end of the C function
chunk_get_line_for_offset(chunk, offset) ==
    chunk_get_line_for_offset_from(chunk, offset, 1, 0)

(***************************************************************************)
(* scanner.c, at the level of lexemes: the source is a sequence of words,  *)
(* each word is one lexeme, the word "\n" is a line break and the end of   *)
(* the sequence is the terminating NUL.  token_t is [type, lexeme, line].  *)
(***************************************************************************)
Punctuation ==
    ("(" :> "TOKEN_LEFT_PAREN") @@ (")" :> "TOKEN_RIGHT_PAREN") @@
    ("{" :> "TOKEN_LEFT_BRACE") @@ ("}" :> "TOKEN_RIGHT_BRACE") @@
    (";" :> "TOKEN_SEMICOLON") @@ ("," :> "TOKEN_COMMA") @@ ("." :> "TOKEN_DOT") @@
    ("-" :> "TOKEN_MINUS") @@ ("+" :> "TOKEN_PLUS") @@
    ("/" :> "TOKEN_SLASH") @@ ("*" :> "TOKEN_STAR") @@
    ("!" :> "TOKEN_BANG") @@ ("!=" :> "TOKEN_BANG_EQUAL") @@
    ("=" :> "TOKEN_EQUAL") @@ ("==" :> "TOKEN_EQUAL_EQUAL") @@
    ("<" :> "TOKEN_LESS") @@ ("<=" :> "TOKEN_LESS_EQUAL") @@
    (">" :> "TOKEN_GREATER") @@ (">=" :> "TOKEN_GREATER_EQUAL")

is_digit(c) == c >= 48 /\ c <= 57

is_alpha(c) == (c >= 97 /\ c <= 122) \/ (c >= 65 /\ c <= 90) \/ c = 95

is_alpha_numeric(c) == is_digit(c) \/ is_alpha(c)

\* the bytes identifier() takes as one lexeme
is_identifier_lexeme(bytes) ==
    /\ bytes # << >>
    /\ is_alpha(bytes[1])
    /\ \A i \in 2..Len(bytes) : is_alpha_numeric(bytes[i])

\* bytes is the scanned lexeme, rest the bytes of the keyword from start on
check_keyword(bytes, start, length, rest, type) ==
    IF Len(bytes) = start + length /\ SubSeq(bytes, start + 1, start + length) = rest
    THEN type
    ELSE "TOKEN_IDENTIFIER"

\* the switch on the first byte and, for c, f and t, on the second.  case 'c'
\* has no break behind its inner switch and runs on into case 'f'.
identifier_type(bytes) ==
    LET longer == Len(bytes) > 1
        case_f ==
            IF longer /\ bytes[2] = 97
            THEN check_keyword(bytes, 2, 3, <<108, 115, 101>>, "TOKEN_FALSE")
            ELSE IF longer /\ bytes[2] = 111
            THEN check_keyword(bytes, 2, 1, <<114>>, "TOKEN_FOR")
            ELSE IF longer /\ bytes[2] = 117
            THEN check_keyword(bytes, 2, 1, <<110>>, "TOKEN_FUN")
            ELSE "TOKEN_IDENTIFIER"
        case_c ==
            IF longer /\ bytes[2] = 108
            THEN check_keyword(bytes, 2, 3, <<97, 115, 115>>, "TOKEN_CLASS")
            ELSE IF longer /\ bytes[2] = 111
            THEN check_keyword(bytes, 2, 6, <<110, 116, 105, 110, 117, 101>>, "TOKEN_CONTINUE")
            ELSE case_f
        case_t ==
            IF longer /\ bytes[2] = 104
            THEN check_keyword(bytes, 2, 2, <<105, 115>>, "TOKEN_THIS")
            ELSE IF longer /\ bytes[2] = 114
            THEN check_keyword(bytes, 2, 2, <<117, 101>>, "TOKEN_TRUE")
            ELSE "TOKEN_IDENTIFIER"
    IN CASE bytes[1] = 97 -> check_keyword(bytes, 1, 2, <<110, 100>>, "TOKEN_AND")
         [] bytes[1] = 98 -> check_keyword(bytes, 1, 4, <<114, 101, 97, 107>>, "TOKEN_BREAK")
         [] bytes[1] = 101 -> check_keyword(bytes, 1, 3, <<108, 115, 101>>, "TOKEN_ELSE")
         [] bytes[1] = 105 -> check_keyword(bytes, 1, 1, <<102>>, "TOKEN_IF")
         [] bytes[1] = 110 -> check_keyword(bytes, 1, 2, <<105, 108>>, "TOKEN_NIL")
         [] bytes[1] = 111 -> check_keyword(bytes, 1, 1, <<114>>, "TOKEN_OR")
         [] bytes[1] = 112 -> check_keyword(bytes, 1, 4, <<114, 105, 110, 116>>, "TOKEN_PRINT")
         [] bytes[1] = 114 ->
                check_keyword(bytes, 1, 5, <<101, 116, 117, 114, 110>>, "TOKEN_RETURN")
         [] bytes[1] = 115 -> check_keyword(bytes, 1, 4, <<117, 112, 101, 114>>, "TOKEN_SUPER")
         [] bytes[1] = 118 -> check_keyword(bytes, 1, 2, <<97, 114>>, "TOKEN_VAR")
         [] bytes[1] = 119 -> check_keyword(bytes, 1, 4, <<104, 105, 108, 101>>, "TOKEN_WHILE")
         [] bytes[1] = 99 -> case_c
         [] bytes[1] = 102 -> case_f
         [] bytes[1] = 116 -> case_t
         [] OTHER -> "TOKEN_IDENTIFIER"

\* the tokens compiler.c uses that scanner.c does not produce yet
ExperimentalTokens ==
    ("?" :> "TOKEN_QUESTION") @@ (":" :> "TOKEN_COLON") @@ ("const" :> "TOKEN_CONST") @@
    ("switch" :> "TOKEN_SWITCH") @@ ("case" :> "TOKEN_CASE") @@
    ("default" :> "TOKEN_DEFAULT")

\* the number lexemes of the programs, with the value strtod and strtol give
NumberLexemes ==
    ("0" :> 0) @@ ("1" :> 1) @@ ("2" :> 2) @@ ("3" :> 3) @@ ("7" :> 7)

\* the string lexemes of the programs (quotes included), with the word
\* between the quotes
StringLexemes ==
    ("\"\"" :> "") @@ ("\"a\"" :> "a") @@ ("\"b\"" :> "b")

scanner_init(words) == [words |-> words, pos |-> 1, line |-> 1]

RECURSIVE skip_whitespace(_)
skip_whitespace(scanner) ==
    IF scanner.pos <= Len(scanner.words) /\ scanner.words[scanner.pos] = "\n"
    THEN skip_whitespace([scanner EXCEPT !.pos = @ + 1, !.line = @ + 1])
    ELSE scanner

make_token(scanner, type, lexeme) == [type |-> type, lexeme |-> lexeme, line |-> scanner.line]

\* the lexeme of an error token is its message
error_token(scanner, message) == make_token(scanner, "TOKEN_ERROR", message)

\* returns [scanner, token]
scan_token(scanner) ==
    LET scan(s) ==
            IF s.pos > Len(s.words)
            THEN [scanner |-> s, token |-> make_token(s, "TOKEN_EOF", "")]
            ELSE LET word == s.words[s.pos]
                 IN [scanner |-> [s EXCEPT !.pos = @ + 1],
                     token |->
                        IF word \in DOMAIN Punctuation
                        THEN make_token(s, Punctuation[word], word)
                        ELSE IF word \in DOMAIN ExperimentalTokens
                        THEN make_token(s, ExperimentalTokens[word], word)
                        ELSE IF word \in DOMAIN NumberLexemes
                        THEN make_token(s, "TOKEN_NUMBER", word)
                        ELSE IF word \in DOMAIN StringLexemes
                        THEN make_token(s, "TOKEN_STRING", word)
                        ELSE IF word \in DOMAIN Ascii /\ is_identifier_lexeme(Ascii[word])
                        THEN make_token(s, identifier_type(Ascii[word]), word)
                        ELSE error_token(s, "Unexpected character.")]
    IN scan(skip_whitespace(scanner))

\* length and bytes are the same
identifiers_equal(a, b) ==
    /\ Len(Ascii[a.lexeme]) = Len(Ascii[b.lexeme])
    /\ Ascii[a.lexeme] = Ascii[b.lexeme]

(***************************************************************************)
(* compiler.c.  parser_t is [scanner, current, previous, had_error,        *)
(* panic_mode, root, compilers]: compilers is the chain of compiler_t from *)
(* the script's to the current one, so that current_compiler is the last   *)
(* element and its enclosing compiler the one before.  Model fields:       *)
(* errors lists the reported messages, aborted says that an assert()       *)
(* failed, hung that a loop of the compiler cannot end; scope_starts of a  *)
(* compiler_t holds local_count at the begin_scope of each open scope, and *)
(* closed what the last end_scope did, unordered that the assert() which   *)
(* failed is the one of chunk_write8 on the order of the lines, jumps what *)
(* emit_jump_to and patch_jump_from were asked for and did; exits of a     *)
(* compiler_t lists what the break and continue statements did whose       *)
(* locals are all still in scope; switches and fors list where the code of *)
(* each finished switch and for statement and of its parts begins and      *)
(* ends.  A function that returns a value next to its effect on the parser *)
(* returns a record with the field parser.                                 *)
(***************************************************************************)
COMPILER_MAX_LOCALS == 256
COMPILER_MAX_UPVALUES == 256
COMPILER_MAX_LOOPS == 16
COMPILER_MAX_BREAKS == 16

PREC_NONE == 0
PREC_ASSIGNMENT == 1
PREC_TERNARY == 2
PREC_OR == 3
PREC_AND == 4
PREC_EQUALITY == 5
PREC_COMPARISON == 6
PREC_TERM == 7
PREC_FACTOR == 8
PREC_UNARY == 9
PREC_CALL == 10

INT16_MIN == -32768
INT16_MAX == 32767

Rule(prefix, infix, precedence) ==
    [prefix |-> prefix, infix |-> infix, precedence |-> precedence]

\* the rows of g_rules that are not {NULL, NULL, PREC_NONE}
g_rules ==
    ("TOKEN_LEFT_PAREN" :> Rule("grouping", "call", PREC_CALL)) @@
    ("TOKEN_MINUS" :> Rule("unary", "binary", PREC_TERM)) @@
    ("TOKEN_PLUS" :> Rule("NULL", "binary", PREC_TERM)) @@
    ("TOKEN_SLASH" :> Rule("NULL", "binary", PREC_FACTOR)) @@
    ("TOKEN_STAR" :> Rule("NULL", "binary", PREC_FACTOR)) @@
    ("TOKEN_BANG" :> Rule("unary", "NULL", PREC_NONE)) @@
    ("TOKEN_BANG_EQUAL" :> Rule("NULL", "binary", PREC_EQUALITY)) @@
    ("TOKEN_EQUAL_EQUAL" :> Rule("NULL", "binary", PREC_EQUALITY)) @@
    ("TOKEN_GREATER" :> Rule("NULL", "binary", PREC_COMPARISON)) @@
    ("TOKEN_GREATER_EQUAL" :> Rule("NULL", "binary", PREC_COMPARISON)) @@
    ("TOKEN_LESS" :> Rule("NULL", "binary", PREC_COMPARISON)) @@
    ("TOKEN_LESS_EQUAL" :> Rule("NULL", "binary", PREC_COMPARISON)) @@
    ("TOKEN_IDENTIFIER" :> Rule("variable", "NULL", PREC_NONE)) @@
    ("TOKEN_STRING" :> Rule("string", "NULL", PREC_NONE)) @@
    ("TOKEN_NUMBER" :> Rule("number", "NULL", PREC_NONE)) @@
    ("TOKEN_AND" :> Rule("NULL", "and_", PREC_AND)) @@
    ("TOKEN_FALSE" :> Rule("literal", "NULL", PREC_NONE)) @@
    ("TOKEN_NIL" :> Rule("literal", "NULL", PREC_NONE)) @@
    ("TOKEN_OR" :> Rule("NULL", "or_", PREC_OR)) @@
    ("TOKEN_TRUE" :> Rule("literal", "NULL", PREC_NONE)) @@
    ("TOKEN_QUESTION" :> Rule("NULL", "ternary", PREC_TERNARY))

get_rule(type) ==
    IF type \in DOMAIN g_rules THEN g_rules[type] ELSE Rule("NULL", "NULL", PREC_NONE)

\* what memset(.., 0, ..) leaves in a token_t: the first token type
ZeroToken == [type |-> "TOKEN_LEFT_PAREN", lexeme |-> "", line |-> 0]

\* the name of local 0 and of the hidden locals
NoneToken == [type |-> "TOKEN_NONE", lexeme |-> "", line |-> 0]

\* no end_scope yet
NoScope == [op |-> "none"]

get_compiler(P) == P.compilers[Len(P.compilers)]

get_chunk(P) == P.root.objects[get_compiler(P).function].chunk

chunk_count(P) == Len(get_chunk(P).code)

error_at_token(P, token, message) ==
    IF P.panic_mode THEN P
    ELSE [P EXCEPT !.errors = Append(@, [line |-> token.line,
                                         at |-> IF token.type = "TOKEN_EOF" THEN "end"
                                                ELSE token.lexeme,
                                         message |-> message]),
                   !.had_error = TRUE,
                   !.panic_mode = TRUE]

error_at_current(P, message) == error_at_token(P, P.current, message)

error_at_previous(P, message) == error_at_token(P, P.previous, message)

\* the loop of advance: scan until a token that is not an error token
RECURSIVE advance_scan(_)
advance_scan(P) ==
    LET scanned(Q) ==
            IF Q.current.type # "TOKEN_ERROR" THEN Q
            ELSE advance_scan(error_at_current(Q, Q.current.lexeme))
        scan(s) == scanned([P EXCEPT !.scanner = s.scanner, !.current = s.token])
    IN scan(scan_token(P.scanner))

advance(P) == advance_scan([P EXCEPT !.previous = P.current])

consume(P, type, message) ==
    IF P.current.type = type THEN advance(P) ELSE error_at_current(P, message)

check(P, type) == P.current.type = type

\* the parser after match; what match returns is check on the parser before
match(P, type) == IF check(P, type) THEN advance(P) ELSE P

parser_init(root, source) ==
    advance([scanner |-> scanner_init(source), current |-> ZeroToken,
             previous |-> ZeroToken, had_error |-> FALSE, panic_mode |-> FALSE,
             root |-> root, compilers |-> << >>, errors |-> << >>, aborted |-> FALSE,
             hung |-> FALSE, returned |-> NULL, closed |-> NoScope,
             unordered |-> FALSE, jumps |-> << >>, switches |-> << >>,
             fors |-> << >>])

\* the parser after an assert() failed
parser_abort(P) == [P EXCEPT !.aborted = TRUE]

Local(name, is_const, depth) ==
    [name |-> name, is_const |-> is_const, depth |-> depth, is_captured |-> FALSE]

\* pushes a compiler_t for a new function object; local 0 is reserved for
\* the closure
begin_compiler(P, type) ==
    LET push(created) ==
            [P EXCEPT !.root = created.root,
                      !.compilers = Append(@,
                          [function |-> created.object, function_type |-> type,
                           scope_depth |-> 0,
                           locals |-> <<Local(NoneToken, TRUE, 0)>>,
                           upvalues |-> << >>, loops |-> << >>,
                           scope_starts |-> << >>, exits |-> << >>])]
        name(created, string) ==
            push([root |-> [string.root EXCEPT !.objects[created.object].name = string.object],
                  object |-> created.object])
        create(created) ==
            IF type = "TYPE_FUNCTION"
            THEN name(created, create_string_object(created.root, Ascii[P.previous.lexeme]))
            ELSE push(created)
    IN create(create_function_object(P.root))

\* returns [parser, compiler]: the parser without its current compiler, and
\* that compiler, whose function is the result
end_compiler(P) ==
    [parser |-> [P EXCEPT !.compilers = SubSeq(@, 1, Len(@) - 1)],
     compiler |-> get_compiler(P)]

\* nothing is emitted once an assert() has ended the process
emit_byte(P, byte) ==
    IF P.aborted THEN P
    ELSE IF ~chunk_lines_ordered(get_chunk(P), P.previous.line)
    THEN [parser_abort(P) EXCEPT !.unordered = TRUE]
    ELSE [P EXCEPT !.root.objects[get_compiler(P).function].chunk =
                       chunk_write8(@, byte, P.previous.line)]

emit_bytes(P, byte1, byte2) == emit_byte(emit_byte(P, byte1), byte2)

emit_long(P, value) ==
    IF P.aborted THEN P
    ELSE IF ~chunk_lines_ordered(get_chunk(P), P.previous.line)
    THEN [parser_abort(P) EXCEPT !.unordered = TRUE]
    ELSE [P EXCEPT !.root.objects[get_compiler(P).function].chunk =
                       chunk_write32(@, value, P.previous.line)]

emit_byte_and_long(P, value1, value2) == emit_long(emit_byte(P, value1), value2)

emit_return(P) == emit_byte(emit_byte(P, OP_NIL), OP_RETURN)

\* chunk_add_value on the current chunk; returns [parser, index]
add_value(P, value) ==
    LET store(added) ==
            [parser |-> [P EXCEPT !.root.objects[get_compiler(P).function].chunk = added.chunk],
             index |-> added.index]
    IN store(chunk_add_value(get_chunk(P), value))

\* an opcode with an index operand, in its short or its _LONG form
emit_indexed(P, opcode, opcode_long, index) ==
    IF index < 256
    THEN emit_bytes(P, opcode, index)
    ELSE emit_byte_and_long(P, opcode_long, index)

emit_const(P, value) ==
    LET emit(added) == emit_indexed(added.parser, OP_CONST, OP_CONST_LONG, added.index)
    IN emit(add_value(P, value))

RECURSIVE emit_closure_upvalues(_, _, _)
emit_closure_upvalues(P, upvalues, i) ==
    IF i > Len(upvalues) THEN P
    ELSE IF upvalues[i].index >= 256 THEN parser_abort(P)
    ELSE emit_closure_upvalues(
             emit_byte(emit_byte(P, IF upvalues[i].is_local THEN 1 ELSE 0),
                       upvalues[i].index % 256),
             upvalues, i + 1)

emit_closure(P, compiler) ==
    LET emit(added) ==
            IF added.index < 256
            THEN emit_closure_upvalues(emit_bytes(added.parser, OP_CLOSURE, added.index),
                                       compiler.upvalues, 1)
            ELSE parser_abort(added.parser)
    IN emit(add_value(P, OBJECT_VALUE(compiler.function)))

\* returns [parser, index]
emit_string_value(P, name) ==
    LET add(string) ==
            add_value([P EXCEPT !.root = string.root], OBJECT_VALUE(string.object))
    IN add(create_string_object(P.root, Ascii[name.lexeme]))

emit_define_global(P, name_index) ==
    emit_indexed(P, OP_DEFINE_GLOBAL, OP_DEFINE_GLOBAL_LONG, name_index)

emit_get_global(P, name_index) ==
    emit_indexed(P, OP_GET_GLOBAL, OP_GET_GLOBAL_LONG, name_index)

emit_set_global(P, name_index) ==
    emit_indexed(P, OP_SET_GLOBAL, OP_SET_GLOBAL_LONG, name_index)

emit_get_local(P, local_index) ==
    emit_indexed(P, OP_GET_LOCAL, OP_GET_LOCAL_LONG, local_index)

emit_set_local(P, local_index) ==
    emit_indexed(P, OP_SET_LOCAL, OP_SET_LOCAL_LONG, local_index)

emit_get_upvalue(P, upvalue_index) ==
    IF upvalue_index < 256 THEN emit_bytes(P, OP_GET_UPVALUE, upvalue_index)
    ELSE parser_abort(P)

emit_set_upvalue(P, upvalue_index) ==
    IF upvalue_index < 256 THEN emit_bytes(P, OP_SET_UPVALUE, upvalue_index)
    ELSE parser_abort(P)

\* memcpy of an int16_t into code[from_addr + 1] and code[from_addr + 2]
write_int16(P, from_addr, diff) ==
    [P EXCEPT !.root.objects[get_compiler(P).function].chunk.code =
                  [@ EXCEPT ![from_addr + 2] = (diff % 65536) % 256,
                            ![from_addr + 3] = (diff % 65536) \div 256]]

\* the parser Q that fn left behind for P, with the jump in jumps: the
\* addresses asked for, and the bytes at from_addr before and after
jump_done(P, Q, fn, from_addr, to_addr) ==
    LET bytes(R) == IF from_addr + 3 <= chunk_count(R)
                    THEN SubSeq(get_chunk(R).code, from_addr + 1, from_addr + 3)
                    ELSE << >>
    IN [Q EXCEPT !.jumps = Append(@, [fn |-> fn, function |-> get_compiler(P).function,
                                      from |-> from_addr, to |-> to_addr,
                                      panic_mode |-> P.panic_mode,
                                      reported |-> Len(Q.errors) - Len(P.errors),
                                      emitted |-> chunk_count(Q) - chunk_count(P),
                                      before |-> bytes(P), after |-> bytes(Q)])]

\* emit_jump_to without the check of the range
emit_jump_to_without_check(P, opcode, to_addr) ==
    LET patch(Q, from_addr) == write_int16(Q, from_addr, to_addr - from_addr - 3)
    IN IF P.aborted THEN P
       ELSE jump_done(P, patch(emit_byte(emit_byte(emit_byte(P, opcode), 0), 0),
                               chunk_count(P)),
                      "emit_jump_to", chunk_count(P), to_addr)

emit_jump_to(P, opcode, to_addr) ==
    LET patch(Q, from_addr) == write_int16(Q, from_addr, to_addr - from_addr - 3)
    IN IF P.aborted THEN P
       ELSE jump_done(P,
                      IF \/ to_addr - chunk_count(P) - 3 < INT16_MIN
                         \/ to_addr - chunk_count(P) - 3 > INT16_MAX
                      THEN error_at_previous(P, "Can't jump this far.")
                      ELSE patch(emit_byte(emit_byte(emit_byte(P, opcode), 0), 0),
                                 chunk_count(P)),
                      "emit_jump_to", chunk_count(P), to_addr)

\* returns [parser, addr]: addr is the address of the jump instruction
emit_jump_from(P, opcode) ==
    [parser |-> emit_byte(emit_byte(emit_byte(P, opcode), 0), 0),
     addr |-> chunk_count(P)]

\* patch_jump_from with the distance measured from the jump instruction
\* itself
patch_jump_from_instruction(P, from_addr) ==
    IF P.aborted THEN P
    ELSE jump_done(P,
                   IF \/ chunk_count(P) - from_addr - 3 < INT16_MIN
                      \/ chunk_count(P) - from_addr - 3 > INT16_MAX
                   THEN error_at_previous(P, "Can't jump this far.")
                   ELSE write_int16(P, from_addr, chunk_count(P) - from_addr),
                   "patch_jump_from", from_addr, chunk_count(P))

\* patch_jump_from without the check of the range
patch_jump_from_without_check(P, from_addr) ==
    IF P.aborted THEN P
    ELSE jump_done(P, write_int16(P, from_addr, chunk_count(P) - from_addr - 3),
                   "patch_jump_from", from_addr, chunk_count(P))

patch_jump_from(P, from_addr) ==
    IF P.aborted THEN P
    ELSE jump_done(P,
                   IF \/ chunk_count(P) - from_addr - 3 < INT16_MIN
                      \/ chunk_count(P) - from_addr - 3 > INT16_MAX
                   THEN error_at_previous(P, "Can't jump this far.")
                   ELSE write_int16(P, from_addr, chunk_count(P) - from_addr - 3),
                   "patch_jump_from", from_addr, chunk_count(P))

\* returns the parser; the index of the new local is the local count before
add_local(P, name, is_const) ==
    IF get_compiler(P).scope_depth <= 0 THEN parser_abort(P)
    ELSE IF Len(get_compiler(P).locals) >= COMPILER_MAX_LOCALS
    THEN error_at_previous(P, "Too many locals variables in function.")
    ELSE [P EXCEPT !.compilers[Len(P.compilers)].locals = Append(@, Local(name, is_const, -1))]

add_hidden_local(P) == add_local(P, NoneToken, TRUE)

\* the search loop of add_upvalue: the index of the same upvalue, or -1
RECURSIVE find_upvalue(_, _, _, _)
find_upvalue(upvalues, is_local, index, i) ==
    IF i >= Len(upvalues) THEN -1
    ELSE IF upvalues[i + 1].index = index /\ upvalues[i + 1].is_local = is_local THEN i
    ELSE find_upvalue(upvalues, is_local, index, i + 1)

\* add_upvalue without the search for an upvalue it has already
add_upvalue_without_search(P, compiler, is_local, index) ==
    IF Len(P.compilers[compiler].upvalues) = COMPILER_MAX_UPVALUES
    THEN [parser |-> error_at_previous(P, "Too many upvalues in function."),
          found |-> TRUE, index |-> 0]
    ELSE [parser |->
             [P EXCEPT !.compilers[compiler].upvalues =
                           Append(@, [is_local |-> is_local, index |-> index]),
                       !.root.objects[P.compilers[compiler].function].upvalue_count =
                           Len(P.compilers[compiler].upvalues) + 1],
          found |-> TRUE,
          index |-> Len(P.compilers[compiler].upvalues)]

\* compiler is the position of the compiler_t in the chain;
\* returns [parser, found, index]
add_upvalue(P, compiler, is_local, index) ==
    LET add(existing) ==
            IF existing # -1
            THEN [parser |-> P, found |-> TRUE, index |-> existing]
            ELSE IF Len(P.compilers[compiler].upvalues) = COMPILER_MAX_UPVALUES
            THEN [parser |-> error_at_previous(P, "Too many upvalues in function."),
                  found |-> TRUE, index |-> 0]
            ELSE [parser |->
                     [P EXCEPT !.compilers[compiler].upvalues =
                                   Append(@, [is_local |-> is_local, index |-> index]),
                               !.root.objects[P.compilers[compiler].function].upvalue_count =
                                   Len(P.compilers[compiler].upvalues) + 1],
                  found |-> TRUE,
                  index |-> Len(P.compilers[compiler].upvalues)]
    IN add(find_upvalue(P.compilers[compiler].upvalues, is_local, index, 0))

\* the search loop of resolve_local_at_compiler, from the last local down:
\* the index of the local with this name, or -1
RECURSIVE find_local(_, _, _)
find_local(locals, name, i) ==
    IF identifiers_equal(name, locals[i + 1].name) THEN i
    ELSE IF i = 0 THEN -1
    ELSE find_local(locals, name, i - 1)

\* returns [parser, found, index, is_const]
resolve_local_at_compiler(P, compiler, name) ==
    LET resolve(i) ==
            IF i = -1
            THEN [parser |-> P, found |-> FALSE, index |-> 0, is_const |-> FALSE]
            ELSE [parser |-> IF P.compilers[compiler].locals[i + 1].depth = -1
                             THEN error_at_previous(P,
                                      "Can't read local variable in its own initializer.")
                             ELSE P,
                  found |-> TRUE, index |-> i,
                  is_const |-> P.compilers[compiler].locals[i + 1].is_const]
    IN resolve(find_local(P.compilers[compiler].locals, name,
                          Len(P.compilers[compiler].locals) - 1))

resolve_local(P, name) == resolve_local_at_compiler(P, Len(P.compilers), name)

\* returns [parser, found, index]
RECURSIVE resolve_upvalue(_, _, _)
resolve_upvalue(P, compiler, name) ==
    LET chain(upvalue) ==
            IF upvalue.found
            THEN add_upvalue(upvalue.parser, compiler, FALSE, upvalue.index)
            ELSE [parser |-> upvalue.parser, found |-> FALSE, index |-> 0]
        enclosing(local) ==
            IF local.found
            THEN IF local.is_const
                 THEN [parser |-> parser_abort(local.parser), found |-> FALSE, index |-> 0]
                 ELSE add_upvalue(
                          [local.parser EXCEPT
                              !.compilers[compiler - 1].locals[local.index + 1].is_captured = TRUE],
                          compiler, TRUE, local.index)
            ELSE chain(resolve_upvalue(local.parser, compiler - 1, name))
    IN IF compiler = 1
       THEN [parser |-> P, found |-> FALSE, index |-> 0]
       ELSE enclosing(resolve_local_at_compiler(P, compiler - 1, name))

\* the loop of declare_variable over the locals of the current scope
RECURSIVE declare_variable_check(_, _, _)
declare_variable_check(P, name, i) ==
    IF i < 0 THEN P
    ELSE IF /\ get_compiler(P).locals[i + 1].depth # -1
            /\ get_compiler(P).locals[i + 1].depth < get_compiler(P).scope_depth
    THEN P
    ELSE declare_variable_check(
             IF identifiers_equal(name, get_compiler(P).locals[i + 1].name)
             THEN error_at_previous(P, "Already variable with this name in this scope.")
             ELSE P,
             name, i - 1)

declare_variable(P, is_const) ==
    IF get_compiler(P).scope_depth = 0 THEN P
    ELSE add_local(declare_variable_check(P, P.previous, Len(get_compiler(P).locals) - 1),
                   P.previous, is_const)

\* returns [parser, index]
parse_variable_name_and_declare(P, is_const, error_message) ==
    LET declared(Q) ==
            IF get_compiler(P).scope_depth > 0
            THEN [parser |-> Q, index |-> 0]
            ELSE emit_string_value(Q, Q.previous)
    IN declared(declare_variable(consume(P, "TOKEN_IDENTIFIER", error_message), is_const))

mark_initialized(P) ==
    IF get_compiler(P).scope_depth = 0 THEN P
    ELSE IF \/ Len(get_compiler(P).locals) = 0
            \/ get_compiler(P).locals[Len(get_compiler(P).locals)].depth # -1
    THEN parser_abort(P)
    ELSE [P EXCEPT !.compilers[Len(P.compilers)].locals[Len(get_compiler(P).locals)].depth =
                       get_compiler(P).scope_depth]

(***************************************************************************)
(* compiler.c: the Pratt parser.  The parser functions that reach          *)
(* themselves again through expression, statement or declaration run one   *)
(* stage at a time: a stage is the code of the function between two of     *)
(* these calls.  The C call stack of the compiler is a sequence of         *)
(* activations [fn, at, locals]: fn names the function, at is the stage to *)
(* run next, locals holds the arguments and local variables that live      *)
(* across the call.  A staged function takes the parser and its activation *)
(* and returns [parser, calls]: calls lists the activations that run next, *)
(* in this order, before the caller goes on; the last of them is the       *)
(* function's own next stage when it has one.                              *)
(***************************************************************************)
Activation(fn, at, locals) == [fn |-> fn, at |-> at, locals |-> locals]

Call(fn, arguments) == Activation(fn, 0, arguments)

Continue(P, calls) == [parser |-> P, calls |-> calls]

Return(P) == Continue(P, << >>)

expression(P, k) ==
    Continue(P, <<Call("parse_precendence", [prec |-> PREC_ASSIGNMENT])>>)

literal(P, can_assign) ==
    CASE P.previous.type = "TOKEN_NIL" -> emit_byte(P, OP_NIL)
      [] P.previous.type = "TOKEN_TRUE" -> emit_byte(P, OP_TRUE)
      [] P.previous.type = "TOKEN_FALSE" -> emit_byte(P, OP_FALSE)
      [] OTHER -> parser_abort(P)

number(P, can_assign) == emit_const(P, NUMBER_VALUE(NumberLexemes[P.previous.lexeme]))

\* the bytes between the quotes
string(P, can_assign) ==
    LET emit(created) ==
            emit_const([P EXCEPT !.root = created.root], OBJECT_VALUE(created.object))
    IN emit(create_string_object(P.root, Ascii[StringLexemes[P.previous.lexeme]]))

\* stage 1, 2, 3: after the expression of an assignment to a local, an
\* upvalue, a global
variable(P, k) ==
    LET name == P.previous
        can_assign == k.locals.can_assign
        assignment(Q, at, index) ==
            Continue(Q, <<Call("expression", << >>),
                          Activation("variable", at, [index |-> index])>>)
        global(added) ==
            IF can_assign /\ check(added.parser, "TOKEN_EQUAL")
            THEN assignment(match(added.parser, "TOKEN_EQUAL"), 3, added.index)
            ELSE Return(emit_get_global(added.parser, added.index))
        upvalue(resolved) ==
            IF resolved.found
            THEN IF can_assign /\ check(resolved.parser, "TOKEN_EQUAL")
                 THEN assignment(match(resolved.parser, "TOKEN_EQUAL"), 2, resolved.index)
                 ELSE Return(emit_get_upvalue(resolved.parser, resolved.index))
            ELSE global(emit_string_value(resolved.parser, name))
        local(resolved) ==
            IF resolved.found
            THEN IF can_assign /\ check(resolved.parser, "TOKEN_EQUAL")
                 THEN assignment(IF resolved.is_const
                                 THEN error_at_previous(
                                          match(resolved.parser, "TOKEN_EQUAL"),
                                          "Can't assign to const variable.")
                                 ELSE match(resolved.parser, "TOKEN_EQUAL"),
                                 1, resolved.index)
                 ELSE Return(emit_get_local(resolved.parser, resolved.index))
            ELSE upvalue(resolve_upvalue(resolved.parser, Len(resolved.parser.compilers), name))
    IN CASE k.at = 0 -> local(resolve_local(P, name))
         [] k.at = 1 -> Return(emit_set_local(P, k.locals.index))
         [] k.at = 2 -> Return(emit_set_upvalue(P, k.locals.index))
         [] k.at = 3 -> Return(emit_set_global(P, k.locals.index))

grouping(P, k) ==
    CASE k.at = 0 -> Continue(P, <<Call("expression", << >>),
                                   Activation("grouping", 1, << >>)>>)
      [] k.at = 1 -> Return(consume(P, "TOKEN_RIGHT_PAREN", "Expect ')' after expression."))

unary(P, k) ==
    LET operation(type) ==
            CASE type = "TOKEN_BANG" -> emit_byte(P, OP_NOT)
              [] type = "TOKEN_MINUS" -> emit_byte(P, OP_NEGATE)
              [] OTHER -> parser_abort(P)
    IN CASE k.at = 0 ->
                Continue(P, <<Call("parse_precendence", [prec |-> PREC_UNARY]),
                              Activation("unary", 1, [type |-> P.previous.type])>>)
         [] k.at = 1 -> Return(operation(k.locals.type))

binary(P, k) ==
    LET operation(type) ==
            CASE type = "TOKEN_EQUAL_EQUAL" -> emit_byte(P, OP_EQUAL)
              [] type = "TOKEN_BANG_EQUAL" -> emit_bytes(P, OP_EQUAL, OP_NOT)
              [] type = "TOKEN_GREATER" -> emit_byte(P, OP_GREATER)
              [] type = "TOKEN_GREATER_EQUAL" -> emit_bytes(P, OP_LESS, OP_NOT)
              [] type = "TOKEN_LESS" -> emit_byte(P, OP_LESS)
              [] type = "TOKEN_LESS_EQUAL" -> emit_bytes(P, OP_GREATER, OP_NOT)
              [] type = "TOKEN_PLUS" -> emit_byte(P, OP_ADD)
              [] type = "TOKEN_MINUS" -> emit_byte(P, OP_SUB)
              [] type = "TOKEN_STAR" -> emit_byte(P, OP_MUL)
              [] type = "TOKEN_SLASH" -> emit_byte(P, OP_DIV)
              [] OTHER -> parser_abort(P)
    IN CASE k.at = 0 ->
                Continue(P, <<Call("parse_precendence",
                                   [prec |-> get_rule(P.previous.type).precedence + 1]),
                              Activation("binary", 1, [type |-> P.previous.type])>>)
         [] k.at = 1 -> Return(operation(k.locals.type))

ternary(P, k) ==
    LET then_branch(to_else) ==
            Continue(emit_byte(to_else.parser, OP_POP),
                     <<Call("parse_precendence", [prec |-> PREC_TERNARY]),
                       Activation("ternary", 1, [jump_to_else |-> to_else.addr])>>)
        else_branch(to_end) ==
            Continue(emit_byte(patch_jump_from(to_end.parser, k.locals.jump_to_else), OP_POP),
                     <<Call("parse_precendence", [prec |-> PREC_ASSIGNMENT]),
                       Activation("ternary", 2, [jump_to_end |-> to_end.addr])>>)
    IN CASE k.at = 0 -> then_branch(emit_jump_from(P, OP_JUMP_IF_FALSE))
         [] k.at = 1 ->
                else_branch(emit_jump_from(
                    consume(P, "TOKEN_COLON",
                            "Expect ':' after then branch of ternary operator."),
                    OP_JUMP))
         [] k.at = 2 -> Return(patch_jump_from(P, k.locals.jump_to_end))

and_(P, k) ==
    LET right(jump) ==
            Continue(emit_byte(jump.parser, OP_POP),
                     <<Call("parse_precendence", [prec |-> PREC_AND]),
                       Activation("and_", 1, [jump |-> jump.addr])>>)
    IN CASE k.at = 0 -> right(emit_jump_from(P, OP_JUMP_IF_FALSE))
         [] k.at = 1 -> Return(patch_jump_from(P, k.locals.jump))

or_(P, k) ==
    LET right(jump) ==
            Continue(emit_byte(jump.parser, OP_POP),
                     <<Call("parse_precendence", [prec |-> PREC_OR]),
                       Activation("or_", 1, [jump |-> jump.addr])>>)
    IN CASE k.at = 0 -> right(emit_jump_from(P, OP_JUMP_IF_TRUE))
         [] k.at = 1 -> Return(patch_jump_from(P, k.locals.jump))

\* stage 1: after the expression of an argument.  The count it returns is
\* in the field returned of the parser.
argument_list(P, k) ==
    LET argument(Q, count) ==
            Continue(Q, <<Call("expression", << >>),
                          Activation("argument_list", 1, [count |-> count])>>)
        close(count) ==
            Return([consume(P, "TOKEN_RIGHT_PAREN", "Expect ')' after arguments.")
                       EXCEPT !.returned = count])
    IN CASE k.at = 0 ->
                IF ~check(P, "TOKEN_RIGHT_PAREN") THEN argument(P, 0) ELSE close(0)
         [] k.at = 1 ->
                IF check(P, "TOKEN_COMMA")
                THEN argument(match(P, "TOKEN_COMMA"), k.locals.count + 1)
                ELSE close(k.locals.count + 1)

call(P, k) ==
    LET emit(arg_count) ==
            emit_bytes(IF arg_count > 255
                       THEN error_at_current(P, "Can't have more than 255 arguments.")
                       ELSE P,
                       OP_CALL, arg_count % 256)
    IN CASE k.at = 0 -> Continue(P, <<Call("argument_list", << >>),
                                      Activation("call", 1, << >>)>>)
         [] k.at = 1 -> Return(emit(P.returned))

\* stage 1: the while loop over the infix operators and what follows it.
\* The prefix and the infix function of a rule are called by their names.
\* parse_precendence without the check for an '=' left behind the operand
parse_precendence_without_target(P, k) ==
    LET prec == k.locals.prec
        can_assign == prec <= PREC_ASSIGNMENT
        prefix(Q) ==
            IF get_rule(Q.previous.type).prefix = "NULL"
            THEN Return(error_at_previous(Q, "Expect expression."))
            ELSE Continue(Q, <<Call(get_rule(Q.previous.type).prefix,
                                    [can_assign |-> can_assign]),
                               Activation("parse_precendence", 1, k.locals)>>)
        infix(Q) ==
            Continue(Q, <<Call(get_rule(Q.previous.type).infix, [can_assign |-> can_assign]),
                          Activation("parse_precendence", 1, k.locals)>>)
    IN CASE k.at = 0 -> prefix(advance(P))
         [] k.at = 1 ->
                IF get_rule(P.current.type).precedence >= prec THEN infix(advance(P))
                ELSE Return(P)

parse_precendence(P, k) ==
    LET prec == k.locals.prec
        can_assign == prec <= PREC_ASSIGNMENT
        prefix(Q) ==
            IF get_rule(Q.previous.type).prefix = "NULL"
            THEN Return(error_at_previous(Q, "Expect expression."))
            ELSE Continue(Q, <<Call(get_rule(Q.previous.type).prefix,
                                    [can_assign |-> can_assign]),
                               Activation("parse_precendence", 1, k.locals)>>)
        infix(Q) ==
            Continue(Q, <<Call(get_rule(Q.previous.type).infix, [can_assign |-> can_assign]),
                          Activation("parse_precendence", 1, k.locals)>>)
    IN CASE k.at = 0 -> prefix(advance(P))
         [] k.at = 1 ->
                IF get_rule(P.current.type).precedence >= prec THEN infix(advance(P))
                ELSE IF can_assign /\ check(P, "TOKEN_EQUAL")
                THEN Return(error_at_previous(match(P, "TOKEN_EQUAL"),
                                              "Invalid assignment target."))
                ELSE Return(P)

(***************************************************************************)
(* compiler.c: error recovery, scopes and loops                            *)
(***************************************************************************)
RECURSIVE synchronize(_)
synchronize(P) ==
    IF P.previous.type = "TOKEN_SEMICOLON" THEN P
    ELSE IF P.current.type \in {"TOKEN_EOF", "TOKEN_CLASS", "TOKEN_FUN", "TOKEN_VAR",
                                "TOKEN_FOR", "TOKEN_IF", "TOKEN_WHILE", "TOKEN_PRINT",
                                "TOKEN_RETURN"}
    THEN [P EXCEPT !.panic_mode = FALSE]
    ELSE synchronize(advance(P))

begin_scope(P) ==
    [P EXCEPT !.compilers[Len(P.compilers)].scope_depth = @ + 1,
              !.compilers[Len(P.compilers)].scope_starts =
                  Append(@, Len(get_compiler(P).locals))]

\* end_scope_locals with a POP for a captured local too
RECURSIVE end_scope_locals_with_pop(_)
end_scope_locals_with_pop(P) ==
    LET locals == get_compiler(P).locals
    IN IF Len(locals) = 0 \/ locals[Len(locals)].depth <= get_compiler(P).scope_depth
       THEN P
       ELSE end_scope_locals_with_pop(
                [emit_byte(P, OP_POP)
                    EXCEPT !.compilers[Len(P.compilers)].locals = SubSeq(@, 1, Len(@) - 1)])

\* the loop of end_scope: one instruction per local that leaves the scope
RECURSIVE end_scope_locals(_)
end_scope_locals(P) ==
    LET locals == get_compiler(P).locals
    IN IF Len(locals) = 0 \/ locals[Len(locals)].depth <= get_compiler(P).scope_depth
       THEN P
       ELSE end_scope_locals(
                [emit_byte(P, IF locals[Len(locals)].is_captured
                              THEN OP_CLOSE_UPVALUE ELSE OP_POP)
                    EXCEPT !.compilers[Len(P.compilers)].locals = SubSeq(@, 1, Len(@) - 1)])

\* closed: local_count before the matching begin_scope and after the
\* loop, the locals declared in between and the bytes the loop emitted
end_scope(P) ==
    LET starts == get_compiler(P).scope_starts
        leave(Q) ==
            [Q EXCEPT !.compilers[Len(Q.compilers)].scope_starts =
                          SubSeq(@, 1, Len(@) - 1),
                      !.compilers[Len(Q.compilers)].exits =
                          SelectSeq(@, LAMBDA e : e.local_count <= Len(get_compiler(Q).locals)),
                      !.closed =
                          [op |-> "end_scope",
                           before |-> starts[Len(starts)],
                           after |-> Len(get_compiler(Q).locals),
                           locals |-> SubSeq(get_compiler(P).locals, starts[Len(starts)] + 1,
                                             Len(get_compiler(P).locals)),
                           code |-> SubSeq(get_chunk(Q).code, chunk_count(P) + 1,
                                           chunk_count(Q))]]
    IN IF get_compiler(P).scope_depth <= 0 THEN parser_abort(P)
       ELSE leave(end_scope_locals(
                [P EXCEPT !.compilers[Len(P.compilers)].scope_depth = @ - 1]))

\* the loop of simulate_end_scope: scope_depth and local_count are its
\* local variables, the compiler keeps its locals
RECURSIVE simulate_end_scope_locals(_, _, _)
simulate_end_scope_locals(P, scope_depth, local_count) ==
    IF local_count = 0 \/ get_compiler(P).locals[local_count].depth <= scope_depth
    THEN P
    ELSE simulate_end_scope_locals(
             emit_byte(P, IF get_compiler(P).locals[local_count].is_captured
                          THEN OP_CLOSE_UPVALUE ELSE OP_POP),
             scope_depth, local_count - 1)

simulate_end_scope(P, count) ==
    IF get_compiler(P).scope_depth <= 0 \/ count <= 0 THEN parser_abort(P)
    ELSE simulate_end_scope_locals(P, get_compiler(P).scope_depth - count,
                                   Len(get_compiler(P).locals))

\* loop_t is [continue_addr, break_jumps, scope_depth_at_start]
begin_loop(P) ==
    IF Len(get_compiler(P).loops) >= COMPILER_MAX_LOOPS THEN parser_abort(P)
    ELSE [P EXCEPT !.compilers[Len(P.compilers)].loops =
                       Append(@, [continue_addr |-> chunk_count(P),
                                  break_jumps |-> << >>,
                                  scope_depth_at_start |-> get_compiler(P).scope_depth])]

\* patch_jump_from for jumps[i], jumps[i + 1], ...
RECURSIVE patch_jumps_from(_, _, _)
patch_jumps_from(P, jumps, i) ==
    IF i > Len(jumps) THEN P
    ELSE patch_jumps_from(patch_jump_from(P, jumps[i]), jumps, i + 1)

end_loop(P) ==
    IF Len(get_compiler(P).loops) = 0 THEN parser_abort(P)
    ELSE [patch_jumps_from(P, get_compiler(P).loops[Len(get_compiler(P).loops)].break_jumps, 1)
             EXCEPT !.compilers[Len(P.compilers)].loops = SubSeq(@, 1, Len(@) - 1)]

\* returns [parser, found, index]: found is FALSE where C returns NULL.
\* loop_index is a size_t: loop_count - loop_offset wraps around when the
\* offset is larger than the count, and is then larger than the count too.
resolve_loop(P, loop_offset) ==
    LET loops == get_compiler(P).loops
    IN IF Len(loops) = 0
       THEN [parser |-> parser_abort(P), found |-> FALSE, index |-> 0]
       ELSE IF Len(loops) - loop_offset < 0 \/ Len(loops) - loop_offset >= Len(loops)
       THEN [parser |-> error_at_previous(P, "Invalid loop offset."),
             found |-> FALSE, index |-> 0]
       ELSE IF get_compiler(P).scope_depth <
                   loops[Len(loops) - loop_offset + 1].scope_depth_at_start
       THEN [parser |-> parser_abort(P), found |-> FALSE, index |-> 0]
       ELSE [parser |-> P, found |-> TRUE, index |-> Len(loops) - loop_offset]

(***************************************************************************)
(* compiler.c: the recursive descent parser, in stages like the Pratt      *)
(* parser.  A local variable that points to a compiler_t or a loop_t holds *)
(* its position in the chain of compilers or in the loops of its compiler. *)
(***************************************************************************)
\* stage 1: after the initializer expression
var_declaration(P, k) ==
    LET initializer(declared) ==
            IF check(declared.parser, "TOKEN_EQUAL")
            THEN Continue(match(declared.parser, "TOKEN_EQUAL"),
                          <<Call("expression", << >>),
                            Activation("var_declaration", 1,
                                       [compiler |-> Len(P.compilers),
                                        global_id |-> declared.index])>>)
            ELSE Continue(emit_byte(declared.parser, OP_NIL),
                          <<Activation("var_declaration", 1,
                                       [compiler |-> Len(P.compilers),
                                        global_id |-> declared.index])>>)
        define(Q) ==
            IF Q.compilers[k.locals.compiler].scope_depth > 0
            THEN mark_initialized(Q)
            ELSE emit_define_global(Q, k.locals.global_id)
    IN CASE k.at = 0 ->
                initializer(parse_variable_name_and_declare(
                    IF P.previous.type = "TOKEN_CONST" /\ get_compiler(P).scope_depth = 0
                    THEN error_at_current(
                             P, "Const variables are not supported at global scope.")
                    ELSE P,
                    k.locals.is_const, "Expect variable name."))
         [] k.at = 1 ->
                Return(define(consume(P, "TOKEN_SEMICOLON",
                                      "Expect ';' after variable declaration.")))

block(P, k) ==
    IF ~check(P, "TOKEN_RIGHT_BRACE") /\ ~check(P, "TOKEN_EOF")
    THEN Continue(P, <<Call("declaration", << >>), Activation("block", 0, << >>)>>)
    ELSE Return(consume(P, "TOKEN_RIGHT_BRACE", "Expect '}' after block."))

\* the do-while loop of function over the parameters, and the assignment of
\* the arity after it; arity counts the parameters before this one
RECURSIVE function_parameters(_, _)
function_parameters(P, arity) ==
    LET next(Q) ==
            IF check(Q, "TOKEN_COMMA") /\ ~Q.aborted
            THEN function_parameters(match(Q, "TOKEN_COMMA"), arity + 1)
            ELSE [Q EXCEPT !.root.objects[get_compiler(Q).function].arity = arity + 1]
        parameter(declared) == next(mark_initialized(declared.parser))
    IN parameter(parse_variable_name_and_declare(
                     IF arity + 1 > 255
                     THEN error_at_current(P, "Can't have more than 255 parameters.")
                     ELSE P,
                     TRUE, "Expect parameter name."))

\* stage 1: after the block of the body
function(P, k) ==
    LET closure(ended) == emit_closure(ended.parser, ended.compiler)
        body(Q) ==
            Continue(consume(consume(Q, "TOKEN_RIGHT_PAREN", "Expect ')' after parameters."),
                             "TOKEN_LEFT_BRACE", "Expect '{' before function body."),
                     <<Call("block", << >>), Activation("function", 1, << >>)>>)
        parameters(Q) ==
            IF ~check(Q, "TOKEN_RIGHT_PAREN") THEN body(function_parameters(Q, 0)) ELSE body(Q)
    IN CASE k.at = 0 ->
                parameters(consume(begin_scope(begin_compiler(P, "TYPE_FUNCTION")),
                                   "TOKEN_LEFT_PAREN", "Expect '(' after function name."))
         [] k.at = 1 -> Return(closure(end_compiler(end_scope(emit_return(P)))))

fun_declaration(P, k) ==
    LET body(declared) ==
            Continue(declared.parser,
                     <<Call("function", << >>),
                       Activation("fun_declaration", 1,
                                  [compiler |-> Len(P.compilers),
                                   global_id |-> declared.index])>>)
    IN CASE k.at = 0 ->
                body(parse_variable_name_and_declare(P, TRUE, "Expect function name."))
         [] k.at = 1 ->
                Return(IF P.compilers[k.locals.compiler].scope_depth > 0
                       THEN mark_initialized(P)
                       ELSE emit_define_global(P, k.locals.global_id))

expression_statement(P, k) ==
    CASE k.at = 0 -> Continue(P, <<Call("expression", << >>),
                                   Activation("expression_statement", 1, << >>)>>)
      [] k.at = 1 ->
             Return(emit_byte(consume(P, "TOKEN_SEMICOLON", "Expect ';' after expression."),
                              OP_POP))

print_statement(P, k) ==
    CASE k.at = 0 -> Continue(P, <<Call("expression", << >>),
                                   Activation("print_statement", 1, << >>)>>)
      [] k.at = 1 ->
             Return(emit_byte(consume(P, "TOKEN_SEMICOLON", "Expect ';' after value."),
                              OP_PRINT))

\* stage 1: after the condition, 2: after the then branch, 3: after the
\* else branch
if_statement(P, k) ==
    LET then_branch(to_else) ==
            Continue(emit_byte(to_else.parser, OP_POP),
                     <<Call("statement", << >>),
                       Activation("if_statement", 2, [jump_to_else |-> to_else.addr])>>)
        else_branch(Q, jump_over_else) ==
            IF check(Q, "TOKEN_ELSE")
            THEN Continue(match(Q, "TOKEN_ELSE"),
                          <<Call("statement", << >>),
                            Activation("if_statement", 3,
                                       [jump_over_else |-> jump_over_else])>>)
            ELSE Return(patch_jump_from(Q, jump_over_else))
        over_else(jump) ==
            else_branch(emit_byte(patch_jump_from(jump.parser, k.locals.jump_to_else), OP_POP),
                        jump.addr)
    IN CASE k.at = 0 ->
                Continue(consume(P, "TOKEN_LEFT_PAREN", "Expect '(' after 'if'."),
                         <<Call("expression", << >>), Activation("if_statement", 1, << >>)>>)
         [] k.at = 1 ->
                then_branch(emit_jump_from(
                    consume(P, "TOKEN_RIGHT_PAREN", "Expect ')' after condition."),
                    OP_JUMP_IF_FALSE))
         [] k.at = 2 -> over_else(emit_jump_from(P, OP_JUMP))
         [] k.at = 3 -> Return(patch_jump_from(P, k.locals.jump_over_else))

\* stage 1: after the condition, 2: after the body
while_statement(P, k) ==
    LET condition(Q) ==
            Continue(consume(Q, "TOKEN_LEFT_PAREN", "Expect '(' after 'while'."),
                     <<Call("expression", << >>),
                       Activation("while_statement", 1, [start_addr |-> chunk_count(Q)])>>)
        body(to_end) ==
            Continue(emit_byte(to_end.parser, OP_POP),
                     <<Call("statement", << >>),
                       Activation("while_statement", 2,
                                  [start_addr |-> k.locals.start_addr,
                                   jump_to_end |-> to_end.addr])>>)
    IN CASE k.at = 0 -> condition(begin_loop(P))
         [] k.at = 1 ->
                body(emit_jump_from(
                    consume(P, "TOKEN_RIGHT_PAREN", "Expect ')' after condition."),
                    OP_JUMP_IF_FALSE))
         [] k.at = 2 ->
                Return(end_loop(emit_byte(
                    patch_jump_from(emit_jump_to(P, OP_JUMP, k.locals.start_addr),
                                    k.locals.jump_to_end),
                    OP_POP)))

\* loop->continue_addr = loop_start
loop_continue_at_begin(P, loop, addr) == P

loop_continue_at(P, loop, addr) ==
    [P EXCEPT !.compilers[Len(P.compilers)].loops[loop].continue_addr = addr]

\* stage 1: the condition clause, 2: after the condition expression, 3: the
\* increment clause, 4: after the increment expression, 5: the body,
\* 6: after the body.  clauses is a model field: where the code of the
\* initializer, the condition, the increment and the body begins (SIZE_MAX
\* for no increment); the finished record is appended to fors of the parser.
for_statement(P, k) ==
    LET initializer(Q) ==
            IF check(Q, "TOKEN_SEMICOLON")
            THEN Continue(match(Q, "TOKEN_SEMICOLON"),
                          <<Activation("for_statement", 1,
                                       [loop |-> Len(get_compiler(Q).loops),
                                        clauses |-> [start |-> chunk_count(Q)]])>>)
            ELSE IF check(Q, "TOKEN_VAR")
            THEN Continue(match(Q, "TOKEN_VAR"),
                          <<Call("var_declaration", [is_const |-> FALSE]),
                            Activation("for_statement", 1,
                                       [loop |-> Len(get_compiler(Q).loops),
                                        clauses |-> [start |-> chunk_count(Q)]])>>)
            ELSE Continue(Q, <<Call("expression_statement", << >>),
                               Activation("for_statement", 1,
                                          [loop |-> Len(get_compiler(Q).loops),
                                           clauses |-> [start |-> chunk_count(Q)]])>>)
        at(stage, loop_start, jump_to_end, clauses) ==
            Activation("for_statement", stage,
                       [loop |-> k.locals.loop, loop_start |-> loop_start,
                        jump_to_end |-> jump_to_end, clauses |-> clauses])
        condition(to_end) ==
            Continue(emit_byte(to_end.parser, OP_POP),
                     <<at(3, k.locals.loop_start, to_end.addr, k.locals.clauses)>>)
        increment(over_increment) ==
            Continue(over_increment.parser,
                     <<Call("expression", << >>),
                       Activation("for_statement", 4,
                                  [loop |-> k.locals.loop,
                                   loop_start |-> k.locals.loop_start,
                                   jump_to_end |-> k.locals.jump_to_end,
                                   jump_over_increment |-> over_increment.addr,
                                   increment_addr |-> chunk_count(over_increment.parser),
                                   clauses |-> k.locals.clauses])>>)
        end(Q) ==
            end_scope(end_loop(
                IF k.locals.jump_to_end # SIZE_MAX
                THEN emit_byte(patch_jump_from(Q, k.locals.jump_to_end), OP_POP)
                ELSE Q))
        done(Q, body_end) ==
            [Q EXCEPT !.fors =
                 Append(@, [function |-> get_compiler(P).function,
                            start |-> k.locals.clauses.start,
                            condition |-> k.locals.clauses.condition,
                            increment |-> k.locals.clauses.increment,
                            body |-> k.locals.clauses.body,
                            body_end |-> body_end,
                            end |-> chunk_count(Q)])]
    IN CASE k.at = 0 ->
                initializer(consume(begin_loop(begin_scope(P)), "TOKEN_LEFT_PAREN",
                                    "Expect '(' after 'for'."))
         [] k.at = 1 ->
                IF check(P, "TOKEN_SEMICOLON")
                THEN Continue(match(P, "TOKEN_SEMICOLON"),
                              <<Activation("for_statement", 3,
                                           [loop |-> k.locals.loop,
                                            loop_start |-> chunk_count(P),
                                            jump_to_end |-> SIZE_MAX,
                                            clauses |-> [start |-> k.locals.clauses.start,
                                                         condition |-> chunk_count(P)]])>>)
                ELSE Continue(P, <<Call("expression", << >>),
                                   Activation("for_statement", 2,
                                              [loop |-> k.locals.loop,
                                               loop_start |-> chunk_count(P),
                                               clauses |-> [start |-> k.locals.clauses.start,
                                                            condition |-> chunk_count(P)]])>>)
         [] k.at = 2 ->
                condition(emit_jump_from(
                    consume(P, "TOKEN_SEMICOLON", "Expect ';' after loop condition."),
                    OP_JUMP_IF_FALSE))
         [] k.at = 3 ->
                IF check(P, "TOKEN_RIGHT_PAREN")
                THEN Continue(match(P, "TOKEN_RIGHT_PAREN"),
                              <<at(5, k.locals.loop_start, k.locals.jump_to_end,
                                   [start |-> k.locals.clauses.start,
                                    condition |-> k.locals.clauses.condition,
                                    increment |-> SIZE_MAX])>>)
                ELSE increment(emit_jump_from(P, OP_JUMP))
         [] k.at = 4 ->
                Continue(patch_jump_from(
                             emit_jump_to(
                                 consume(emit_byte(P, OP_POP), "TOKEN_RIGHT_PAREN",
                                         "Expect ')' after for clauses."),
                                 OP_JUMP, k.locals.loop_start),
                             k.locals.jump_over_increment),
                         <<at(5, k.locals.increment_addr, k.locals.jump_to_end,
                              [start |-> k.locals.clauses.start,
                               condition |-> k.locals.clauses.condition,
                               increment |-> k.locals.increment_addr])>>)
         [] k.at = 5 ->
                Continue(loop_continue_at(P, k.locals.loop, k.locals.loop_start),
                         <<Call("statement", << >>),
                           at(6, k.locals.loop_start, k.locals.jump_to_end,
                              [start |-> k.locals.clauses.start,
                               condition |-> k.locals.clauses.condition,
                               increment |-> k.locals.clauses.increment,
                               body |-> chunk_count(P)])>>)
         [] k.at = 6 ->
                Return(done(end(emit_jump_to(P, OP_JUMP, k.locals.loop_start)),
                            chunk_count(emit_jump_to(P, OP_JUMP, k.locals.loop_start))))

switch_case_literal(P) ==
    CASE check(P, "TOKEN_NUMBER") -> number(match(P, "TOKEN_NUMBER"), FALSE)
      [] check(P, "TOKEN_STRING") -> string(match(P, "TOKEN_STRING"), FALSE)
      [] check(P, "TOKEN_NIL") -> literal(match(P, "TOKEN_NIL"), FALSE)
      [] check(P, "TOKEN_TRUE") -> literal(match(P, "TOKEN_TRUE"), FALSE)
      [] check(P, "TOKEN_FALSE") -> literal(match(P, "TOKEN_FALSE"), FALSE)
      [] OTHER -> error_at_current(P, "Invalid case literal.")

\* The loop has no exit at the end of the source, where statement consumes
\* nothing and only reports and emits: there the C loop never ends, and the
\* model stops it with hung set.
switch_case_statements(P, k) ==
    IF check(P, "TOKEN_CASE") \/ check(P, "TOKEN_DEFAULT") \/ check(P, "TOKEN_RIGHT_BRACE")
    THEN Return(P)
    ELSE IF check(P, "TOKEN_EOF") THEN Return([P EXCEPT !.hung = TRUE])
    ELSE Continue(P, <<Call("statement", << >>),
                       Activation("switch_case_statements", 0, << >>)>>)

\* the number of case arms a switch statement supports
jump_to_end_max == 128

\* the jump from the end of an arm to the end of the switch; locals are the
\* local variables of switch_statement
switch_arm_end_without_jump(P, locals) ==
    Continue(P, <<Activation("switch_statement", 2,
                             [locals EXCEPT !.arms[Len(locals.arms)].end = chunk_count(P)])>>)

switch_arm_end(P, locals) ==
    LET arm_end(jump) ==
            Continue(jump.parser,
                     <<Activation("switch_statement", 2,
                                  [locals EXCEPT !.jump_to_end = Append(@, jump.addr),
                                                 !.arms[Len(locals.arms)].end =
                                                     chunk_count(jump.parser)])>>)
    IN arm_end(emit_jump_from(P, OP_JUMP))

\* stage 1: after the switch value, 2: the head of the for(;;) loop,
\* 3: after the statements of an arm, 4: after the loop.  start,
\* local_count and arms are model fields: where the code of the statement
\* begins, the locals declared before it, and for each arm the token of its
\* literal and where its statements begin and end; the finished record is
\* appended to switches of the parser.
switch_statement(P, k) ==
    LET arms(Q, local_index) ==
            Continue(consume(consume(mark_initialized(Q), "TOKEN_RIGHT_PAREN",
                                     "Expect ')' after switch expression."),
                             "TOKEN_LEFT_BRACE", "Expect '{' after 'switch(...)'."),
                     <<Activation("switch_statement", 2,
                                  [local_index |-> local_index,
                                   jump_to_next_case |-> SIZE_MAX,
                                   jump_to_end |-> << >>,
                                   default_case_found |-> FALSE,
                                   start |-> k.locals.start,
                                   local_count |-> k.locals.local_count,
                                   arms |-> << >>])>>)
        previous_case(Q) ==
            IF k.locals.jump_to_next_case # SIZE_MAX
            THEN emit_byte(patch_jump_from(Q, k.locals.jump_to_next_case), OP_POP)
            ELSE Q
        case_statements(to_next, token) ==
            Continue(consume(emit_byte(to_next.parser, OP_POP), "TOKEN_COLON",
                             "Expect ':' after case value."),
                     <<Call("switch_case_statements", << >>),
                       Activation("switch_statement", 3,
                                  [k.locals EXCEPT
                                      !.jump_to_next_case = to_next.addr,
                                      !.arms = Append(@, [is_default |-> FALSE,
                                                          literal |-> token,
                                                          body |-> chunk_count(to_next.parser) + 1,
                                                          end |-> SIZE_MAX])])>>)
        case_arm(Q) ==
            case_statements(emit_jump_from(
                emit_byte(
                    switch_case_literal(emit_get_local(
                        previous_case(
                            IF k.locals.default_case_found
                            THEN error_at_previous(
                                     Q, "Value-cases must be defined before default-case.")
                            ELSE Q),
                        k.locals.local_index)),
                    OP_EQUAL),
                OP_JUMP_IF_FALSE),
                Q.current)
        default_arm(Q) ==
            Continue(consume(previous_case(
                                 IF k.locals.default_case_found
                                 THEN error_at_previous(Q, "Default-case already defined.")
                                 ELSE Q),
                             "TOKEN_COLON", "Expect ':' after 'default'."),
                     <<Call("switch_case_statements", << >>),
                       Activation("switch_statement", 3,
                                  [k.locals EXCEPT
                                      !.jump_to_next_case = SIZE_MAX,
                                      !.default_case_found = TRUE,
                                      !.arms = Append(@, [is_default |-> TRUE,
                                                          literal |-> Q.previous,
                                                          body |-> chunk_count(previous_case(Q)),
                                                          end |-> SIZE_MAX])])>>)
        done(Q, exit) ==
            [Q EXCEPT !.switches =
                 Append(@, [function |-> get_compiler(P).function,
                            start |-> k.locals.start,
                            local_count |-> k.locals.local_count,
                            local_index |-> k.locals.local_index,
                            arms |-> k.locals.arms,
                            exit |-> exit,
                            end |-> chunk_count(Q)])]
    IN CASE k.at = 0 ->
                Continue(consume(begin_scope(P), "TOKEN_LEFT_PAREN",
                                 "Expect '(' after 'switch'."),
                         <<Call("expression", << >>),
                           Activation("switch_statement", 1,
                                      [start |-> chunk_count(P),
                                       local_count |-> Len(get_compiler(P).locals)])>>)
         [] k.at = 1 ->
                arms(add_hidden_local(P),
                     IF Len(get_compiler(P).locals) >= COMPILER_MAX_LOCALS THEN 0
                     ELSE Len(get_compiler(P).locals))
         [] k.at = 2 ->
                IF check(P, "TOKEN_RIGHT_BRACE")
                THEN Continue(match(P, "TOKEN_RIGHT_BRACE"),
                              <<Activation("switch_statement", 4, k.locals)>>)
                ELSE IF check(P, "TOKEN_CASE") THEN case_arm(match(P, "TOKEN_CASE"))
                ELSE IF check(P, "TOKEN_DEFAULT") THEN default_arm(match(P, "TOKEN_DEFAULT"))
                ELSE Continue(error_at_current(P, "Invalid token in switch-block."),
                              <<Activation("switch_statement", 4, k.locals)>>)
         [] k.at = 3 ->
                IF Len(k.locals.jump_to_end) >= jump_to_end_max
                THEN Return(parser_abort(P))
                ELSE switch_arm_end(P, k.locals)
         [] k.at = 4 ->
                Return(done(end_scope(patch_jumps_from(previous_case(P),
                                                       k.locals.jump_to_end, 1)),
                            chunk_count(previous_case(P))))

\* returns [parser, offset].  The number lexemes of the model are integers,
\* so that strtol reads the whole lexeme.
parse_loop_offset(P) ==
    LET offset(Q) ==
            [parser |-> IF NumberLexemes[Q.previous.lexeme] < 1
                        THEN error_at_previous(Q, "Loop offset must be positive.")
                        ELSE Q,
             offset |-> NumberLexemes[Q.previous.lexeme]]
    IN IF check(P, "TOKEN_NUMBER") THEN offset(match(P, "TOKEN_NUMBER"))
       ELSE [parser |-> P, offset |-> 1]

\* what break_statement and continue_statement do before their jump: the
\* simulated end of the scopes between the statement and the target loop
drop_scopes(P, target_loop) ==
    IF get_compiler(P).scope_depth > target_loop.scope_depth_at_start
    THEN simulate_end_scope(P, get_compiler(P).scope_depth - target_loop.scope_depth_at_start)
    ELSE P

\* Q is the parser after a break or continue statement that found its
\* target loop, P the parser before the simulated end of the scopes
exit_done(P, Q, target_loop) ==
    [Q EXCEPT !.compilers[Len(Q.compilers)].exits =
                  Append(@, [depth |-> target_loop.scope_depth_at_start,
                             local_count |-> Len(get_compiler(P).locals),
                             code |-> SubSeq(get_chunk(Q).code, chunk_count(P) + 1,
                                             chunk_count(Q)),
                             unchanged |->
                                 /\ get_compiler(Q).locals = get_compiler(P).locals
                                 /\ get_compiler(Q).scope_depth = get_compiler(P).scope_depth])]

break_statement(P) ==
    LET register(jump, loop_index) ==
            [jump.parser EXCEPT !.compilers[Len(P.compilers)].loops[loop_index + 1].break_jumps =
                                    Append(@, jump.addr)]
        jump(Q, loop_index) ==
            IF Len(get_compiler(Q).loops[loop_index + 1].break_jumps) >= COMPILER_MAX_BREAKS
            THEN parser_abort(Q)
            ELSE register(emit_jump_from(Q, OP_JUMP), loop_index)
        drop(Q, loop_index) ==
            exit_done(Q, jump(drop_scopes(Q, get_compiler(Q).loops[loop_index + 1]),
                              loop_index),
                      get_compiler(Q).loops[loop_index + 1])
        target(resolved) ==
            IF ~resolved.found
            THEN consume(resolved.parser, "TOKEN_SEMICOLON", "Expect ';' after 'break'.")
            ELSE drop(consume(resolved.parser, "TOKEN_SEMICOLON", "Expect ';' after 'break'."),
                      resolved.index)
        offset(parsed) == target(resolve_loop(parsed.parser, parsed.offset))
    IN offset(parse_loop_offset(
                  IF Len(get_compiler(P).loops) = 0
                  THEN error_at_previous(P, "Can't use 'break' outside loops.")
                  ELSE P))

continue_statement(P) ==
    LET jump(Q, target_loop) ==
            IF target_loop.continue_addr = SIZE_MAX THEN parser_abort(Q)
            ELSE emit_jump_to(Q, OP_JUMP, target_loop.continue_addr)
        drop(Q, loop_index) ==
            exit_done(Q, jump(drop_scopes(Q, get_compiler(Q).loops[loop_index + 1]),
                              get_compiler(Q).loops[loop_index + 1]),
                      get_compiler(Q).loops[loop_index + 1])
        target(resolved) ==
            IF ~resolved.found
            THEN consume(resolved.parser, "TOKEN_SEMICOLON", "Expect ';' after 'continue'.")
            ELSE drop(consume(resolved.parser, "TOKEN_SEMICOLON",
                              "Expect ';' after 'continue'."),
                      resolved.index)
        offset(parsed) == target(resolve_loop(parsed.parser, parsed.offset))
    IN offset(parse_loop_offset(
                  IF Len(get_compiler(P).loops) = 0
                  THEN error_at_previous(P, "Can't use 'continue' outside loops.")
                  ELSE P))

\* stage 1: after the expression of the value
return_statement(P, k) ==
    LET value(Q) ==
            IF check(Q, "TOKEN_SEMICOLON")
            THEN Return(emit_return(match(Q, "TOKEN_SEMICOLON")))
            ELSE Continue(Q, <<Call("expression", << >>),
                               Activation("return_statement", 1, << >>)>>)
    IN CASE k.at = 0 ->
                value(IF get_compiler(P).function_type = "TYPE_SCRIPT"
                      THEN error_at_previous(P, "Can't return from top-level code.")
                      ELSE P)
         [] k.at = 1 ->
                Return(emit_byte(consume(P, "TOKEN_SEMICOLON",
                                         "Expect ';' after return value."),
                                 OP_RETURN))

\* stage 1: after the block of a block statement
statement(P, k) ==
    LET run(type, fn) == Continue(match(P, type), <<Call(fn, << >>)>>)
    IN CASE k.at = 1 -> Return(end_scope(P))
         [] k.at = 0 /\ check(P, "TOKEN_PRINT") -> run("TOKEN_PRINT", "print_statement")
         [] k.at = 0 /\ check(P, "TOKEN_IF") -> run("TOKEN_IF", "if_statement")
         [] k.at = 0 /\ check(P, "TOKEN_WHILE") -> run("TOKEN_WHILE", "while_statement")
         [] k.at = 0 /\ check(P, "TOKEN_FOR") -> run("TOKEN_FOR", "for_statement")
         [] k.at = 0 /\ check(P, "TOKEN_SWITCH") -> run("TOKEN_SWITCH", "switch_statement")
         [] k.at = 0 /\ check(P, "TOKEN_BREAK") ->
                Return(break_statement(match(P, "TOKEN_BREAK")))
         [] k.at = 0 /\ check(P, "TOKEN_CONTINUE") ->
                Return(continue_statement(match(P, "TOKEN_CONTINUE")))
         [] k.at = 0 /\ check(P, "TOKEN_RETURN") -> run("TOKEN_RETURN", "return_statement")
         [] k.at = 0 /\ check(P, "TOKEN_LEFT_BRACE") ->
                Continue(begin_scope(match(P, "TOKEN_LEFT_BRACE")),
                         <<Call("block", << >>), Activation("statement", 1, << >>)>>)
         [] OTHER -> Continue(P, <<Call("expression_statement", << >>)>>)

\* stage 1: after the declaration or statement
declaration(P, k) ==
    LET run(Q, fn, arguments) ==
            Continue(Q, <<Call(fn, arguments), Activation("declaration", 1, << >>)>>)
    IN CASE k.at = 1 -> Return(IF P.panic_mode THEN synchronize(P) ELSE P)
         [] k.at = 0 /\ check(P, "TOKEN_VAR") ->
                run(match(P, "TOKEN_VAR"), "var_declaration", [is_const |-> FALSE])
         [] k.at = 0 /\ check(P, "TOKEN_CONST") ->
                run(match(P, "TOKEN_CONST"), "var_declaration", [is_const |-> TRUE])
         [] k.at = 0 /\ check(P, "TOKEN_FUN") ->
                run(match(P, "TOKEN_FUN"), "fun_declaration", << >>)
         [] OTHER -> run(P, "statement", << >>)

\* stage 0 makes the parser and the script's compiler from the arguments in
\* the activation, stage 1 is the while loop over the declarations.  What
\* compile returns is in the field returned of the parser: the function, or
\* NULL after a compile error.
compile(P, k) ==
    LET return(ended) ==
            [ended.parser EXCEPT !.returned = IF ~ended.parser.had_error
                                              THEN ended.compiler.function
                                              ELSE NULL]
    IN CASE k.at = 0 ->
                Continue(begin_compiler(parser_init(k.locals.root, k.locals.source),
                                        "TYPE_SCRIPT"),
                         <<Activation("compile", 1, << >>)>>)
         [] k.at = 1 ->
                IF ~check(P, "TOKEN_EOF")
                THEN Continue(P, <<Call("declaration", << >>),
                                   Activation("compile", 1, << >>)>>)
                ELSE Return(return(end_compiler(emit_return(match(P, "TOKEN_EOF")))))

\* the call of the function an activation names, at the stage it names
call_function(P, k) ==
    CASE k.fn = "compile" -> compile(P, k)
      [] k.fn = "declaration" -> declaration(P, k)
      [] k.fn = "statement" -> statement(P, k)
      [] k.fn = "var_declaration" -> var_declaration(P, k)
      [] k.fn = "fun_declaration" -> fun_declaration(P, k)
      [] k.fn = "function" -> function(P, k)
      [] k.fn = "block" -> block(P, k)
      [] k.fn = "expression_statement" -> expression_statement(P, k)
      [] k.fn = "print_statement" -> print_statement(P, k)
      [] k.fn = "if_statement" -> if_statement(P, k)
      [] k.fn = "while_statement" -> while_statement(P, k)
      [] k.fn = "for_statement" -> for_statement(P, k)
      [] k.fn = "switch_statement" -> switch_statement(P, k)
      [] k.fn = "switch_case_statements" -> switch_case_statements(P, k)
      [] k.fn = "return_statement" -> return_statement(P, k)
      [] k.fn = "expression" -> expression(P, k)
      [] k.fn = "parse_precendence" -> parse_precendence(P, k)
      [] k.fn = "grouping" -> grouping(P, k)
      [] k.fn = "unary" -> unary(P, k)
      [] k.fn = "binary" -> binary(P, k)
      [] k.fn = "ternary" -> ternary(P, k)
      [] k.fn = "and_" -> and_(P, k)
      [] k.fn = "or_" -> or_(P, k)
      [] k.fn = "call" -> call(P, k)
      [] k.fn = "argument_list" -> argument_list(P, k)
      [] k.fn = "variable" -> variable(P, k)
      [] k.fn = "literal" -> Return(literal(P, k.locals.can_assign))
      [] k.fn = "number" -> Return(number(P, k.locals.can_assign))
      [] k.fn = "string" -> Return(string(P, k.locals.can_assign))
      [] k.fn = "NULL" -> Return(parser_abort(P))

(***************************************************************************)
(* value.c / object.c: print_value and print_value_to_buffer.  The bytes   *)
(* printf writes for a value; the numbers of the model are integers, which *)
(* "%lf" prints with six zeros after the point.                            *)
(***************************************************************************)
RECURSIVE decimal_digits(_)
decimal_digits(n) ==
    IF n < 10 THEN <<48 + n>> ELSE Append(decimal_digits(n \div 10), 48 + (n % 10))

number_bytes(n) ==
    (IF n < 0 THEN <<45>> \o decimal_digits(0 - n) ELSE decimal_digits(n))
        \o <<46, 48, 48, 48, 48, 48, 48>>

function_bytes(objects, func) ==
    IF objects[func].name # NULL
    THEN <<60, 102, 110, 32>> \o objects[objects[func].name].chars \o <<62>>
    ELSE <<60, 115, 99, 114, 105, 112, 116, 62>>

print_object_bytes(objects, object) ==
    CASE objects[object].type = "OBJECT_TYPE_STRING" -> objects[object].chars
      [] objects[object].type = "OBJECT_TYPE_NATIVE" ->
             <<60, 110, 97, 116, 105, 118, 101, 32, 102, 110, 32>>
                 \o Ascii[objects[object].name] \o <<62>>
      [] objects[object].type = "OBJECT_TYPE_FUNCTION" -> function_bytes(objects, object)
      [] objects[object].type = "OBJECT_TYPE_CLOSURE" ->
             function_bytes(objects, objects[object].function)
      [] objects[object].type = "OBJECT_TYPE_UPVALUE" -> <<117, 112, 118, 97, 108, 117, 101>>

print_value_bytes(objects, value) ==
    CASE IS_NIL(value) -> <<110, 105, 108>>
      [] IS_BOOL(value) -> IF AS_BOOL(value) THEN <<116, 114, 117, 101>>
                                             ELSE <<102, 97, 108, 115, 101>>
      [] IS_NUMBER(value) -> number_bytes(value.as)
      [] IS_OBJECT(value) -> print_object_bytes(objects, value.as)

\* print_value: the bytes go to stdout
print_value(m, value) ==
    [m EXCEPT !.out = Append(@, [to |-> "stdout",
                                 bytes |-> print_value_bytes(m.root.objects, value)])]

\* printf of a fixed text
print_text(m, bytes) == [m EXCEPT !.out = Append(@, [to |-> "stdout", bytes |-> bytes])]

\* snprintf into a buffer of max_length bytes, terminator included
print_value_to_buffer(objects, max_length, value) ==
    LET cut(bytes) == IF Len(bytes) > max_length - 1
                      THEN SubSeq(bytes, 1, max_length - 1) ELSE bytes
    IN cut(print_value_bytes(objects, value))

(***************************************************************************)
(* vm.c: runtime errors, calls and the natives.  call_frame_t is           *)
(* [closure, ip, base_pointer]: ip is an offset into the code of the       *)
(* closure's function, base_pointer a slot number.  frames lists the       *)
(* frames written so far, frame_count counts the live ones.                *)
(***************************************************************************)
\* a slot of the value stack; memset left nil in the slots never written
stack_read(m, slot) ==
    IF slot < rows_count(m.stack) THEN rows_get(m.stack, slot) ELSE NIL_VALUE

\* the write through a value_t* that points into the stack
stack_write(m, slot, value) ==
    IF slot < rows_count(m.stack) THEN [m EXCEPT !.stack = rows_set(@, slot, value)]
    ELSE [m EXCEPT !.stack = rows_set(rows_extend(@, slot, NIL_VALUE), slot, value),
                   !.born = rows_extend(@, slot + 1, 0)]

reset_stack(m) == m

\* the "[line %u] in ..." line of one frame
frame_trace(m, frame_index) ==
    LET func == m.root.objects[m.frames[frame_index].closure].function
    IN [line |-> chunk_get_line_for_offset(m.root.objects[func].chunk,
                                           m.frames[frame_index].ip - 1),
        name |-> m.root.objects[func].name]

\* the message and the call stack go to stderr; format is the format string
\* and args its arguments
runtime_error(m, format, args) ==
    LET trace == [i \in 1..m.frame_count |-> frame_trace(m, m.frame_count + 1 - i)]
    IN IF m.aborted THEN m
       ELSE IF m.frame_count = 0 \/ \E i \in 1..m.frame_count : trace[i].line = 0
       THEN [m EXCEPT !.aborted = TRUE]
       ELSE [reset_stack(m) EXCEPT
                !.out = Append(@, [to |-> "stderr", format |-> format, args |-> args,
                                   trace |-> trace]),
                !.has_runtime_error = TRUE]

create_closure(m, func) ==
    LET closure(created) == [vm |-> [m EXCEPT !.root = created.root],
                             closure |-> created.object]
    IN closure(create_closure_object(m.root, func))

RECURSIVE print_arguments(_, _, _, _, _)
print_arguments(m, args, arg_count, i, with_index) ==
    IF i >= arg_count THEN m
    ELSE print_arguments(
             IF with_index
             THEN print_text(print_value(print_text(m, <<97, 114, 103, 91>>
                                                       \o decimal_digits(i)
                                                       \o <<93, 32, 61, 32>>),
                                         stack_read(m, args + i)),
                             <<10>>)
             ELSE print_value(m, stack_read(m, args + i)),
             args, arg_count, i + 1, with_index)

\* native->fn(vm, arg_count, args, &result): args is the slot of the first
\* argument, time what clock() / CLOCKS_PER_SEC gives.
\* returns [vm, ok, result]
native_fn(m, name, arg_count, args, time) ==
    LET done(after, result) == [vm |-> after, ok |-> TRUE, result |-> result]
        failed(after) == [vm |-> after, ok |-> FALSE, result |-> NIL_VALUE]
        tostring(created) ==
            done([m EXCEPT !.root = created.root], OBJECT_VALUE(created.object))
    IN CASE name = "clock" -> done(m, NUMBER_VALUE(time))
         [] name = "dump" ->
                done(print_arguments(
                         print_text(m, <<110, 97, 116, 105, 118, 101, 95, 100, 117, 109, 112, 40>>
                                       \o decimal_digits(arg_count)
                                       \o <<32, 97, 114, 103, 115, 41, 58, 10>>),
                         args, arg_count, 0, TRUE),
                     NIL_VALUE)
         [] name = "printf" ->
                done(print_text(print_arguments(m, args, arg_count, 0, FALSE), <<10>>),
                     NIL_VALUE)
         [] name = "tostring" ->
                tostring(create_string_object(
                             m.root, print_value_to_buffer(m.root.objects, 128,
                                                           stack_read(m, args))))
         [] name = "assert" ->
                IF ~IS_BOOL(stack_read(m, args))
                THEN failed(runtime_error(m, "Invalid value type (%d)",
                                          <<stack_read(m, args).type>>))
                ELSE IF ~AS_BOOL(stack_read(m, args))
                THEN failed(runtime_error(m, "Assertion failed", << >>))
                ELSE done(m, NIL_VALUE)

\* call without the check of the arity of a closure
vm_call_without_arity_check(m, callee, arg_count, time) ==
    LET ok(after) == [vm |-> after, ok |-> TRUE]
        failed(after) == [vm |-> after, ok |-> FALSE]
        frame(func) ==
            [closure |-> callee.as, ip |-> 0, base_pointer |-> m.sp - arg_count - 1]
        push_frame(func) ==
            IF ~IS_OBJECT_TYPE(m.root.objects, stack_read(m, m.sp - arg_count - 1),
                               "OBJECT_TYPE_CLOSURE")
            THEN [m EXCEPT !.aborted = TRUE]
            ELSE [m EXCEPT !.frame_count = @ + 1,
                           !.frames = IF m.frame_count < Len(@)
                                      THEN [@ EXCEPT ![m.frame_count + 1] = frame(func)]
                                      ELSE Append(@, frame(func))]
        closure(func) ==
            IF m.frame_count >= VM_FRAMES_MAX
            THEN failed(runtime_error(m, "Call stack overflow.", << >>))
            ELSE ok(push_frame(func))
        returned(native, called) ==
            IF ~called.ok
            THEN failed(IF ~called.vm.has_runtime_error
                        THEN runtime_error(called.vm, "Call to native function '%s' failed",
                                           <<native.name>>)
                        ELSE called.vm)
            ELSE ok(vm_stack_push([called.vm EXCEPT !.sp = @ - (arg_count + 1)],
                                  called.result))
        native(object) ==
            IF object.arity # SIZE_MAX /\ object.arity # arg_count
            THEN failed(runtime_error(
                            m, "Native function '%s': Expected %zu arguments but got %zu.",
                            <<object.name, object.arity, arg_count>>))
            ELSE returned(object, native_fn(m, object.name, arg_count, m.sp - arg_count, time))
    IN IF IS_OBJECT_TYPE(m.root.objects, callee, "OBJECT_TYPE_CLOSURE")
       THEN closure(m.root.objects[callee.as].function)
       ELSE IF IS_OBJECT_TYPE(m.root.objects, callee, "OBJECT_TYPE_NATIVE")
       THEN native(m.root.objects[callee.as])
       ELSE failed(runtime_error(m, "Can only call functions and classes.", << >>))

\* call without the check of frame_count against VM_FRAMES_MAX
vm_call_without_frame_check(m, callee, arg_count, time) ==
    LET ok(after) == [vm |-> after, ok |-> TRUE]
        failed(after) == [vm |-> after, ok |-> FALSE]
        frame(func) ==
            [closure |-> callee.as, ip |-> 0, base_pointer |-> m.sp - arg_count - 1]
        push_frame(func) ==
            IF ~IS_OBJECT_TYPE(m.root.objects, stack_read(m, m.sp - arg_count - 1),
                               "OBJECT_TYPE_CLOSURE")
            THEN [m EXCEPT !.aborted = TRUE]
            ELSE [m EXCEPT !.frame_count = @ + 1,
                           !.frames = IF m.frame_count < Len(@)
                                      THEN [@ EXCEPT ![m.frame_count + 1] = frame(func)]
                                      ELSE Append(@, frame(func))]
        closure(func) ==
            IF m.root.objects[func].arity # arg_count
            THEN failed(runtime_error(m, "Expected %zu arguments but got %zu.",
                                      <<m.root.objects[func].arity, arg_count>>))
            ELSE ok(push_frame(func))
        returned(native, called) ==
            IF ~called.ok
            THEN failed(IF ~called.vm.has_runtime_error
                        THEN runtime_error(called.vm, "Call to native function '%s' failed",
                                           <<native.name>>)
                        ELSE called.vm)
            ELSE ok(vm_stack_push([called.vm EXCEPT !.sp = @ - (arg_count + 1)],
                                  called.result))
        native(object) ==
            IF object.arity # SIZE_MAX /\ object.arity # arg_count
            THEN failed(runtime_error(
                            m, "Native function '%s': Expected %zu arguments but got %zu.",
                            <<object.name, object.arity, arg_count>>))
            ELSE returned(object, native_fn(m, object.name, arg_count, m.sp - arg_count, time))
    IN IF IS_OBJECT_TYPE(m.root.objects, callee, "OBJECT_TYPE_CLOSURE")
       THEN closure(m.root.objects[callee.as].function)
       ELSE IF IS_OBJECT_TYPE(m.root.objects, callee, "OBJECT_TYPE_NATIVE")
       THEN native(m.root.objects[callee.as])
       ELSE failed(runtime_error(m, "Can only call functions and classes.", << >>))

\* vm.c call; returns [vm, ok]
vm_call(m, callee, arg_count, time) ==
    LET ok(after) == [vm |-> after, ok |-> TRUE]
        failed(after) == [vm |-> after, ok |-> FALSE]
        frame(func) ==
            [closure |-> callee.as, ip |-> 0, base_pointer |-> m.sp - arg_count - 1]
        push_frame(func) ==
            IF ~IS_OBJECT_TYPE(m.root.objects, stack_read(m, m.sp - arg_count - 1),
                               "OBJECT_TYPE_CLOSURE")
            THEN [m EXCEPT !.aborted = TRUE]
            ELSE [m EXCEPT !.frame_count = @ + 1,
                           !.frames = IF m.frame_count < Len(@)
                                      THEN [@ EXCEPT ![m.frame_count + 1] = frame(func)]
                                      ELSE Append(@, frame(func))]
        closure(func) ==
            IF m.root.objects[func].arity # arg_count
            THEN failed(runtime_error(m, "Expected %zu arguments but got %zu.",
                                      <<m.root.objects[func].arity, arg_count>>))
            ELSE IF m.frame_count >= VM_FRAMES_MAX
            THEN failed(runtime_error(m, "Call stack overflow.", << >>))
            ELSE ok(push_frame(func))
        returned(native, called) ==
            IF ~called.ok
            THEN failed(IF ~called.vm.has_runtime_error
                        THEN runtime_error(called.vm, "Call to native function '%s' failed",
                                           <<native.name>>)
                        ELSE called.vm)
            ELSE ok(vm_stack_push([called.vm EXCEPT !.sp = @ - (arg_count + 1)],
                                  called.result))
        native(object) ==
            IF object.arity # SIZE_MAX /\ object.arity # arg_count
            THEN failed(runtime_error(
                            m, "Native function '%s': Expected %zu arguments but got %zu.",
                            <<object.name, object.arity, arg_count>>))
            ELSE returned(object, native_fn(m, object.name, arg_count, m.sp - arg_count, time))
    IN IF IS_OBJECT_TYPE(m.root.objects, callee, "OBJECT_TYPE_CLOSURE")
       THEN closure(m.root.objects[callee.as].function)
       ELSE IF IS_OBJECT_TYPE(m.root.objects, callee, "OBJECT_TYPE_NATIVE")
       THEN native(m.root.objects[callee.as])
       ELSE failed(runtime_error(m, "Can only call functions and classes.", << >>))

\* vm.c: ADD on two strings
concatenate(m) ==
    LET push(popped, created) ==
            vm_stack_push([popped EXCEPT !.root = created.root], OBJECT_VALUE(created.object))
        create(left, right, popped) ==
            push(popped, IF Len(left.chars) + Len(right.chars) = 0
                         THEN create_string_object(popped.root, << >>)
                         ELSE create_string_object(popped.root, left.chars \o right.chars))
    IN create(m.root.objects[vm_stack_peek(m, 1).as], m.root.objects[vm_stack_peek(m, 0).as],
              vm_stack_pop(vm_stack_pop(m)))

(***************************************************************************)
(* vm.c: vm_run.  The registers of vm_run are frame (the position of the   *)
(* cached call frame in frames) and ip (an offset into the code of its     *)
(* function).  A case of the switch takes the VM, the frame and the ip     *)
(* behind the opcode and returns [vm, frame, ip, result]; result is "NONE" *)
(* while the loop goes on and what vm_run returns when it ends.            *)
(***************************************************************************)
Running(m, f, i) == [vm |-> m, frame |-> f, ip |-> i, result |-> "NONE"]

Returned(m, f, i, result) == [vm |-> m, frame |-> f, ip |-> i, result |-> result]

\* the macro ERROR
\* ERROR without frame->ip = ip
ERROR_without_ip(m, f, i, format, args) ==
    Returned(runtime_error(m, format, args), f, i, "RUN_RUNTIME_ERROR")

ERROR(m, f, i, format, args) ==
    Returned(runtime_error([m EXCEPT !.frames[f].ip = i], format, args), f, i,
             "RUN_RUNTIME_ERROR")

\* a failed assert() inside vm_run
Abort(m, f, i) == Running([m EXCEPT !.aborted = TRUE], f, i)

frame_function(m, f) == m.root.objects[m.frames[f].closure].function

frame_chunk(m, f) == m.root.objects[frame_function(m, f)].chunk

\* CHECK_IP_BOUNDS
ip_in_bounds(m, f, i, size) == i >= 0 /\ i + size <= Len(frame_chunk(m, f).code)

READ_BYTE(m, f, i) == frame_chunk(m, f).code[i + 1]

\* memcpy of two bytes into an int16_t
READ_INT16(m, f, i) ==
    LET unsigned == frame_chunk(m, f).code[i + 1] + 256 * frame_chunk(m, f).code[i + 2]
    IN IF unsigned > INT16_MAX THEN unsigned - 65536 ELSE unsigned

\* memcpy of four bytes into a uint32_t
READ_UINT32(m, f, i) ==
    (frame_chunk(m, f).code[i + 1] + 256 * frame_chunk(m, f).code[i + 2])
        + 65536 * (frame_chunk(m, f).code[i + 3] + 256 * frame_chunk(m, f).code[i + 4])

\* the operand of an opcode that has a _LONG form
READ_OPERAND(m, f, i, long) == IF long THEN READ_UINT32(m, f, i) ELSE READ_BYTE(m, f, i)

\* the ip behind that operand
after_operand(i, long) == IF long THEN i + 4 ELSE i + 1

\* READ_CONST and READ_CONST_LONG
READ_CONST(m, f, i, long) == frame_chunk(m, f).values[READ_OPERAND(m, f, i, long) + 1]

\* *(upvalue->target)
upvalue_read(m, upvalue) ==
    IF m.root.objects[upvalue].target = TARGET_CLOSED
    THEN m.root.objects[upvalue].closed
    ELSE stack_read(m, m.root.objects[upvalue].target)

\* *(upvalue->target) = value
upvalue_write(m, upvalue, value) ==
    IF m.root.objects[upvalue].target = TARGET_CLOSED
    THEN [m EXCEPT !.root.objects[upvalue].closed = value]
    ELSE stack_write(m, m.root.objects[upvalue].target, value)

\* the quotient of two numbers of the model, which are integers
number_divide(a, b) == a \div b

\* UNARY_NUMBER_OP(-)
op_negate(m, f, i) ==
    IF ~IS_NUMBER(vm_stack_peek(m, 0))
    THEN ERROR(m, f, i, "Operand must be a number", << >>)
    ELSE Running(vm_stack_push(vm_stack_pop(m), NUMBER_VALUE(0 - vm_stack_peek(m, 0).as)),
                 f, i)

\* BINARY_NUMBER_OP
op_binary_number(m, f, i, opcode) ==
    LET left == vm_stack_peek(m, 1).as
        right == vm_stack_peek(m, 0).as
        result ==
            CASE opcode = OP_GREATER -> BOOL_VALUE(left > right)
              [] opcode = OP_LESS -> BOOL_VALUE(left < right)
              [] opcode = OP_ADD -> NUMBER_VALUE(left + right)
              [] opcode = OP_SUB -> NUMBER_VALUE(left - right)
              [] opcode = OP_MUL -> NUMBER_VALUE(left * right)
              [] opcode = OP_DIV -> NUMBER_VALUE(number_divide(left, right))
    IN IF ~IS_NUMBER(vm_stack_peek(m, 0)) \/ ~IS_NUMBER(vm_stack_peek(m, 1))
       THEN ERROR(m, f, i, "Operands must be numbers", << >>)
       ELSE Running(vm_stack_push(vm_stack_pop(vm_stack_pop(m)), result), f, i)

op_add(m, f, i) ==
    IF IS_STRING(m.root.objects, vm_stack_peek(m, 1))
          /\ IS_STRING(m.root.objects, vm_stack_peek(m, 0))
    THEN Running(concatenate(m), f, i)
    ELSE IF IS_NUMBER(vm_stack_peek(m, 1)) /\ IS_NUMBER(vm_stack_peek(m, 0))
    THEN op_binary_number(m, f, i, OP_ADD)
    ELSE ERROR(m, f, i, "Operands must be two numbers or two strings.", << >>)

op_define_global(m, f, i, long) ==
    Running([vm_stack_pop(m) EXCEPT !.globals =
                 table_set(m.root.objects, @, READ_CONST(m, f, i, long),
                           vm_stack_peek(m, 0)).table],
            f, after_operand(i, long))

op_get_global(m, f, i, long) ==
    LET push(got) ==
            IF ~got.found
            THEN ERROR(m, f, after_operand(i, long), "Undefined variable '%s'.",
                       <<print_value_to_buffer(m.root.objects, 128, READ_CONST(m, f, i, long))>>)
            ELSE Running(vm_stack_push(m, got.value), f, after_operand(i, long))
    IN push(table_get(m.root.objects, m.globals, READ_CONST(m, f, i, long)))

\* OP_SET_GLOBAL without the table_delete of the name it has just inserted
op_set_global_without_delete(m, f, i, long) ==
    LET name == READ_CONST(m, f, i, long)
        assign(set) ==
            IF set.is_new
            THEN ERROR([m EXCEPT !.globals = set.table],
                       f, after_operand(i, long), "Undefined variable '%s'",
                       <<print_value_to_buffer(m.root.objects, 128, name)>>)
            ELSE Running([m EXCEPT !.globals = set.table], f, after_operand(i, long))
    IN assign(table_set(m.root.objects, m.globals, name, vm_stack_peek(m, 0)))

op_set_global(m, f, i, long) ==
    LET name == READ_CONST(m, f, i, long)
        assign(set) ==
            IF set.is_new
            THEN ERROR([m EXCEPT !.globals =
                                     table_delete(m.root.objects, set.table, name).table],
                       f, after_operand(i, long), "Undefined variable '%s'",
                       <<print_value_to_buffer(m.root.objects, 128, name)>>)
            ELSE Running([m EXCEPT !.globals = set.table], f, after_operand(i, long))
    IN assign(table_set(m.root.objects, m.globals, name, vm_stack_peek(m, 0)))

\* CHECK_SP_BOUNDS
sp_in_bounds(slot) == slot >= 0 /\ slot < VM_STACK_MAX

op_get_local(m, f, i, long) ==
    LET slot == m.frames[f].base_pointer + READ_OPERAND(m, f, i, long)
    IN IF ~sp_in_bounds(slot) THEN Abort(m, f, after_operand(i, long))
       ELSE Running(vm_stack_push(m, stack_read(m, slot)), f, after_operand(i, long))

op_set_local(m, f, i, long) ==
    LET slot == m.frames[f].base_pointer + READ_OPERAND(m, f, i, long)
    IN IF ~sp_in_bounds(slot) THEN Abort(m, f, after_operand(i, long))
       ELSE Running(stack_write(m, slot, vm_stack_peek(m, 0)), f, after_operand(i, long))

op_get_upvalue(m, f, i, long) ==
    LET upvalues == m.root.objects[m.frames[f].closure].upvalues
        index == READ_OPERAND(m, f, i, long) % 256
    IN IF index >= Len(upvalues) THEN Abort(m, f, after_operand(i, long))
       ELSE Running(vm_stack_push(m, upvalue_read(m, upvalues[index + 1])), f, after_operand(i, long))

op_set_upvalue(m, f, i, long) ==
    LET upvalues == m.root.objects[m.frames[f].closure].upvalues
        index == READ_OPERAND(m, f, i, long) % 256
    IN IF index >= Len(upvalues) THEN Abort(m, f, after_operand(i, long))
       ELSE Running(upvalue_write(m, upvalues[index + 1], vm_stack_peek(m, 0)), f, after_operand(i, long))

\* OP_JUMP, OP_JUMP_IF_TRUE, OP_JUMP_IF_FALSE
op_jump(m, f, i, opcode) ==
    LET taken ==
            CASE opcode = OP_JUMP -> TRUE
              [] opcode = OP_JUMP_IF_TRUE -> ~value_is_falsey(vm_stack_peek(m, 0))
              [] opcode = OP_JUMP_IF_FALSE -> value_is_falsey(vm_stack_peek(m, 0))
    IN Running(m, f, IF taken THEN i + 2 + READ_INT16(m, f, i) ELSE i + 2)

op_call(m, f, i, time) ==
    LET arg_count == READ_BYTE(m, f, i)
        refresh(called) ==
            IF ~called.ok THEN Returned(called.vm, f, i + 1, "RUN_RUNTIME_ERROR")
            ELSE IF called.vm.aborted THEN Running(called.vm, f, i + 1)
            ELSE Running(called.vm, called.vm.frame_count,
                         called.vm.frames[called.vm.frame_count].ip)
    IN refresh(vm_call([m EXCEPT !.frames[f].ip = i + 1],
                       stack_read(m, m.sp - 1 - arg_count), arg_count, time))

\* OP_RETURN that leaves the closure of the script on the stack
op_return_without_pop(m, f, i) ==
    LET return_value == vm_stack_peek(m, 0)
        base_pointer == m.frames[f].base_pointer
        leave(closed) ==
            IF closed.frame_count = 1
            THEN Returned([closed EXCEPT !.frame_count = 0], f, i, "RUN_OK")
            ELSE IF closed.aborted THEN Running(closed, f, i)
            ELSE Running(vm_stack_push([closed EXCEPT !.frame_count = @ - 1,
                                                      !.sp = base_pointer],
                                       return_value),
                         closed.frame_count - 1,
                         closed.frames[closed.frame_count - 1].ip)
    IN leave(close_upvalue(vm_stack_pop(m), base_pointer))

\* OP_RETURN that leaves the stack pointer where the callee had it
op_return_without_base(m, f, i) ==
    LET return_value == vm_stack_peek(m, 0)
        base_pointer == m.frames[f].base_pointer
        leave(closed) ==
            IF closed.frame_count = 1
            THEN Returned(vm_stack_pop([closed EXCEPT !.frame_count = 0]), f, i, "RUN_OK")
            ELSE IF closed.aborted THEN Running(closed, f, i)
            ELSE Running(vm_stack_push([closed EXCEPT !.frame_count = @ - 1], return_value),
                         closed.frame_count - 1,
                         closed.frames[closed.frame_count - 1].ip)
    IN leave(close_upvalue(vm_stack_pop(m), base_pointer))

op_return(m, f, i) ==
    LET return_value == vm_stack_peek(m, 0)
        base_pointer == m.frames[f].base_pointer
        leave(closed) ==
            IF closed.frame_count = 1
            THEN Returned(vm_stack_pop([closed EXCEPT !.frame_count = 0]), f, i, "RUN_OK")
            ELSE IF closed.aborted THEN Running(closed, f, i)
            ELSE Running(vm_stack_push([closed EXCEPT !.frame_count = @ - 1,
                                                      !.sp = base_pointer],
                                       return_value),
                         closed.frame_count - 1,
                         closed.frames[closed.frame_count - 1].ip)
    IN leave(close_upvalue(vm_stack_pop(m), base_pointer))

\* the for loop of OP_CLOSURE over the upvalues of the new closure
RECURSIVE op_closure_upvalues(_, _, _, _, _, _)
op_closure_upvalues(m, f, i, closure, k, upvalue_count) ==
    LET store(Q, upvalue) ==
            op_closure_upvalues([Q EXCEPT !.root.objects[closure].upvalues[k + 1] = upvalue],
                                f, i + 2, closure, k + 1, upvalue_count)
        local(captured) == store(captured.vm, captured.upvalue)
    IN IF m.aborted \/ k >= upvalue_count THEN Running(m, f, i)
       ELSE IF ~ip_in_bounds(m, f, i, 2) THEN Abort(m, f, i)
       ELSE IF READ_BYTE(m, f, i) # 0
       THEN local(capture_upvalue(m, m.frames[f].base_pointer + READ_BYTE(m, f, i + 1)))
       ELSE store(m, m.root.objects[m.frames[f].closure].upvalues[READ_BYTE(m, f, i + 1) + 1])

op_closure(m, f, i) ==
    LET func == READ_CONST(m, f, i, FALSE)
        push(created) ==
            op_closure_upvalues(vm_stack_push(created.vm, OBJECT_VALUE(created.closure)),
                                f, i + 1, created.closure, 0,
                                m.root.objects[func.as].upvalue_count)
    IN IF ~IS_OBJECT_TYPE(m.root.objects, func, "OBJECT_TYPE_FUNCTION")
       THEN Abort(m, f, i + 1)
       ELSE push(create_closure(m, func.as))

\* the number of operand bytes the case of an opcode reads first
operand_size(opcode) ==
    CASE opcode \in {OP_CONST, OP_DEFINE_GLOBAL, OP_GET_GLOBAL, OP_SET_GLOBAL, OP_GET_LOCAL,
                     OP_SET_LOCAL, OP_GET_UPVALUE, OP_SET_UPVALUE, OP_CALL, OP_CLOSURE} -> 1
      [] opcode \in {OP_JUMP, OP_JUMP_IF_TRUE, OP_JUMP_IF_FALSE} -> 2
      [] opcode \in {OP_CONST_LONG, OP_DEFINE_GLOBAL_LONG, OP_GET_GLOBAL_LONG,
                     OP_SET_GLOBAL_LONG, OP_GET_LOCAL_LONG, OP_SET_LOCAL_LONG,
                     OP_GET_UPVALUE_LONG, OP_SET_UPVALUE_LONG} -> 4
      [] OTHER -> 0

\* one iteration of the for(;;) loop: the opcode at ip and its case
vm_run_instruction(m, f, ip0, time) ==
    LET i == ip0 + 1
        opcode == READ_BYTE(m, f, ip0)
        long == operand_size(opcode) = 4
    IN IF ~ip_in_bounds(m, f, ip0, 1) THEN Abort(m, f, ip0)
       ELSE IF ~ip_in_bounds(m, f, i, operand_size(opcode)) THEN Abort(m, f, i)
       ELSE CASE opcode \in {OP_CONST, OP_CONST_LONG} ->
                     Running(vm_stack_push(m, READ_CONST(m, f, i, long)),
                             f, after_operand(i, long))
              [] opcode = OP_NIL -> Running(vm_stack_push(m, NIL_VALUE), f, i)
              [] opcode = OP_TRUE -> Running(vm_stack_push(m, BOOL_VALUE(TRUE)), f, i)
              [] opcode = OP_FALSE -> Running(vm_stack_push(m, BOOL_VALUE(FALSE)), f, i)
              [] opcode = OP_NOT ->
                     Running(vm_stack_push(vm_stack_pop(m),
                                           BOOL_VALUE(value_is_falsey(vm_stack_peek(m, 0)))),
                             f, i)
              [] opcode = OP_NEGATE -> op_negate(m, f, i)
              [] opcode = OP_EQUAL ->
                     Running(vm_stack_push(vm_stack_pop(vm_stack_pop(m)),
                                           BOOL_VALUE(values_equal(vm_stack_peek(m, 1),
                                                                   vm_stack_peek(m, 0)))),
                             f, i)
              [] opcode \in {OP_GREATER, OP_LESS, OP_SUB, OP_MUL, OP_DIV} ->
                     op_binary_number(m, f, i, opcode)
              [] opcode = OP_ADD -> op_add(m, f, i)
              [] opcode \in {OP_DEFINE_GLOBAL, OP_DEFINE_GLOBAL_LONG} -> op_define_global(m, f, i, long)
              [] opcode \in {OP_GET_GLOBAL, OP_GET_GLOBAL_LONG} -> op_get_global(m, f, i, long)
              [] opcode \in {OP_SET_GLOBAL, OP_SET_GLOBAL_LONG} -> op_set_global(m, f, i, long)
              [] opcode \in {OP_GET_LOCAL, OP_GET_LOCAL_LONG} -> op_get_local(m, f, i, long)
              [] opcode \in {OP_SET_LOCAL, OP_SET_LOCAL_LONG} -> op_set_local(m, f, i, long)
              [] opcode \in {OP_GET_UPVALUE, OP_GET_UPVALUE_LONG} -> op_get_upvalue(m, f, i, long)
              [] opcode \in {OP_SET_UPVALUE, OP_SET_UPVALUE_LONG} -> op_set_upvalue(m, f, i, long)
              [] opcode \in {OP_JUMP, OP_JUMP_IF_TRUE, OP_JUMP_IF_FALSE} ->
                     op_jump(m, f, i, opcode)
              [] opcode = OP_POP -> Running(vm_stack_pop(m), f, i)
              [] opcode = OP_CALL -> op_call(m, f, i, time)
              [] opcode = OP_RETURN -> op_return(m, f, i)
              [] opcode = OP_CLOSURE -> op_closure(m, f, i)
              [] opcode = OP_CLOSE_UPVALUE ->
                     Running(vm_stack_pop(close_upvalue(m, m.sp - 1)), f, i)
              [] opcode = OP_PRINT ->
                     Running(print_text(print_value(vm_stack_pop(m), vm_stack_peek(m, 0)),
                                        <<10>>),
                             f, i)
              [] OTHER -> ERROR(m, f, i, "Unknown opcode: %d\n", <<opcode>>)

(***************************************************************************)
(* State. The fields of vm_t are variables of the same names; source is   *)
(* the program text, pc the position of the process, result what           *)
(* vm_run_source returned, frame and ip the cached registers of vm_run,    *)
(* parser the parser_t of compile and control its C call stack, innermost  *)
(* activation first.  While compile runs, parser.root is the root of the   *)
(* VM: the two are one object in C.                                        *)
(* History variables: abstract is the abstract counterpart of the          *)
(* structure under test, last describes the most recent call.              *)
(***************************************************************************)
VARIABLES source, pc, result, frame, ip, parser, control,
          frames, frame_count, stack, sp, root, globals, has_runtime_error,
          out, aborted, born, pushes,
          abstract, last

regs == <<source, pc, result, frame, ip, parser, control>>
vmvars == <<frames, frame_count, stack, sp, root, globals, has_runtime_error,
            out, aborted, born, pushes>>
vars == <<regs, vmvars, abstract, last>>

\* the vm_t of the current state
VM ==
    [frames |-> frames, frame_count |-> frame_count, stack |-> stack, sp |-> sp,
     root |-> root, globals |-> globals, has_runtime_error |-> has_runtime_error,
     out |-> out, aborted |-> aborted, born |-> born, pushes |-> pushes]

\* the current state is the vm_t m
IsVM(m) ==
    /\ frames = m.frames /\ frame_count = m.frame_count
    /\ stack = m.stack /\ sp = m.sp
    /\ root = m.root /\ globals = m.globals
    /\ has_runtime_error = m.has_runtime_error
    /\ out = m.out /\ aborted = m.aborted /\ born = m.born /\ pushes = m.pushes

\* the next state is the vm_t m
Store(m) ==
    /\ frames' = m.frames /\ frame_count' = m.frame_count
    /\ stack' = m.stack /\ sp' = m.sp
    /\ root' = m.root /\ globals' = m.globals
    /\ has_runtime_error' = m.has_runtime_error
    /\ out' = m.out /\ aborted' = m.aborted /\ born' = m.born /\ pushes' = m.pushes

NoCall == [op |-> "none"]

(***************************************************************************)
(* SpecTable: table_set and table_delete in any order on the globals       *)
(* table of a fresh VM, against an abstract key -> value map.              *)
(***************************************************************************)
\* names used as keys next to the five natives: "b" and "j" collide with
\* "clock" and "tostring" at capacity 8, "j" and "z" with "clock" at 16
TableKeyWords == {"clock", "b", "j", "z"}
TableValues == {NIL_VALUE, BOOL_VALUE(TRUE)}

RECURSIVE create_strings(_, _)
create_strings(r, words) ==
    IF words = {} THEN r
    ELSE LET w == CHOOSE x \in words : TRUE
         IN create_strings(create_string_object(r, Ascii[w]).root, words \ {w})

StringKey(r, w) == OBJECT_VALUE(table_get_by_string(r.objects, r.strings, Ascii[w]).key)

TableKeys == {StringKey(root, w) : w \in TableKeyWords} \cup {BOOL_VALUE(TRUE)}

InitTable ==
    /\ source = << >> /\ pc = "table" /\ result = "NONE" /\ frame = 0 /\ ip = 0
    /\ parser = NULL /\ control = << >>
    /\ IsVM([vm_create EXCEPT !.root = create_strings(@, TableKeyWords)])
    /\ abstract = [k \in TableKeys |-> table_get(root.objects, globals, k)]
    /\ last = NoCall

TableSet ==
    \E key \in TableKeys, value \in TableValues :
        /\ pc = "table"
        /\ globals' = table_set(root.objects, globals, key, value).table
        /\ abstract' = [abstract EXCEPT ![key] = [found |-> TRUE, value |-> value]]
        /\ UNCHANGED <<regs, frames, frame_count, stack, sp, root, has_runtime_error,
                       out, aborted, born, pushes, last>>

TableDelete ==
    \E key \in TableKeys :
        /\ pc = "table"
        /\ globals' = table_delete(root.objects, globals, key).table
        /\ abstract' = [abstract EXCEPT ![key] = [found |-> FALSE, value |-> NIL_VALUE]]
        /\ UNCHANGED <<regs, frames, frame_count, stack, sp, root, has_runtime_error,
                       out, aborted, born, pushes, last>>

NextTable == TableSet \/ TableDelete

SpecTable == InitTable /\ [][NextTable]_vars

\* C5: after any sequence of table_set and table_delete calls, table_get of
\* every key returns what the abstract map holds for it: the value of the
\* last table_set not followed by a table_delete, absent otherwise.
C5_TableIsMap ==
    \A k \in TableKeys : table_get(root.objects, globals, k) = abstract[k]

\* the buckets of a table with an entry, and those with a tombstone
ActiveBuckets(table) == {i \in 1..table.capacity : ~IS_NIL(table.entries[i].key)}
TombstoneBuckets(table) == {i \in 1..table.capacity : table.entries[i] = TOMBSTONE}

\* C17: after any sequence of table_set and table_delete calls, with the
\* rehash of a table_set that grows the table, count is the number of
\* buckets with an entry plus the number of buckets with a tombstone.
C17_TableCount ==
    /\ globals.count = Cardinality(ActiveBuckets(globals))
                           + Cardinality(TombstoneBuckets(globals))
    /\ Len(globals.entries) = globals.capacity

\* the table has grown, keys have been deleted since and two tombstones
\* stand next to the entries of the natives and of a key set since
C17_Witness ==
    /\ globals.capacity > 8
    /\ Cardinality(TombstoneBuckets(globals)) >= 2
    /\ Cardinality(ActiveBuckets(globals)) >= 5
    /\ globals.count >= 7

\* a key is looked up after growth, with a tombstone in the table, while it
\* sits behind a colliding key
C5_Witness ==
    /\ globals.capacity > 8
    /\ \E i \in 1..globals.capacity : globals.entries[i] = TOMBSTONE
    /\ \E k \in TableKeys :
          /\ abstract[k].found
          /\ find_entry(root.objects, globals, k)
                # UInt32Mod(hash_value(root.objects, k), globals.capacity)

(***************************************************************************)
(* SpecStrings: string creations in any order on a fresh VM: literals and  *)
(* names (create_string_object) and ADD of two strings (concatenate).      *)
(* abstract maps bytes to the object the first creation returned.          *)
(***************************************************************************)
MaxStringLen == 2
StringWords == {"", "a", "b", "ab", "clock"}

AllStrings(r) == {o \in 1..Len(r.objects) : r.objects[o].type = "OBJECT_TYPE_STRING"}

\* the string object holding these bytes, found without the intern table
StringWithBytes(r, chars) ==
    IF \E o \in AllStrings(r) : r.objects[o].chars = chars
    THEN CHOOSE o \in AllStrings(r) : r.objects[o].chars = chars
    ELSE NULL

InitStrings ==
    /\ source = << >> /\ pc = "strings" /\ result = "NONE" /\ frame = 0 /\ ip = 0
    /\ parser = NULL /\ control = << >>
    /\ IsVM(vm_create)
    /\ abstract = [o \in AllStrings(root) |-> root.objects[o].chars]
    /\ last = NoCall

CreateString ==
    \E w \in StringWords :
        LET return(created, existing) ==
                /\ root' = created.root
                /\ abstract' = IF existing = NULL
                               THEN abstract @@ (created.object :> Ascii[w])
                               ELSE abstract
                /\ last' = [op |-> "create_string_object", chars |-> Ascii[w],
                            object |-> created.object, existing |-> existing]
        IN /\ pc = "strings"
           /\ return(create_string_object(root, Ascii[w]), StringWithBytes(root, Ascii[w]))
           /\ UNCHANGED <<regs, frames, frame_count, stack, sp, globals,
                          has_runtime_error, out, aborted, born, pushes>>

\* the creation concatenate makes for the strings l and r
CreateConcatenation ==
    \E l \in AllStrings(root), r \in AllStrings(root) :
        LET chars == root.objects[l].chars \o root.objects[r].chars
            return(created, existing) ==
                /\ root' = created.root
                /\ abstract' = IF existing = NULL
                               THEN abstract @@ (created.object :> chars)
                               ELSE abstract
                /\ last' = [op |-> "concatenate", chars |-> chars,
                            object |-> created.object, existing |-> existing]
        IN /\ pc = "strings"
           /\ Len(chars) <= MaxStringLen
           /\ return(create_string_object(root, chars), StringWithBytes(root, chars))
           /\ UNCHANGED <<regs, frames, frame_count, stack, sp, globals,
                          has_runtime_error, out, aborted, born, pushes>>

NextStrings == CreateString \/ CreateConcatenation

SpecStrings == InitStrings /\ [][NextStrings]_vars

\* C6: a creation with bytes that some string object already holds returns
\* that object, no two string objects hold the same bytes, every string
\* object is the one first created for its bytes, and values_equal on two
\* strings is equality of their bytes.
C6_Interning ==
    /\ last.op \in {"create_string_object", "concatenate"} =>
          /\ root.objects[last.object].chars = last.chars
          /\ last.existing # NULL => last.object = last.existing
    /\ \A a \in AllStrings(root), b \in AllStrings(root) :
          /\ (root.objects[a].chars = root.objects[b].chars) <=> (a = b)
          /\ values_equal(OBJECT_VALUE(a), OBJECT_VALUE(b))
                <=> (root.objects[a].chars = root.objects[b].chars)
    /\ \A o \in AllStrings(root) : o \in DOMAIN abstract /\ abstract[o] = root.objects[o].chars

\* a concatenation produced bytes that a literal had interned before, after
\* the intern table had grown
C6_Witness ==
    /\ last.op = "concatenate"
    /\ last.existing # NULL
    /\ last.object = last.existing
    /\ Len(last.chars) = 2
    /\ root.strings.capacity > 8

(***************************************************************************)
(* SpecUpvalues: capture_upvalue and close_upvalue in any order on the     *)
(* slots of a value stack.  abstract is the set of slots captured and not  *)
(* closed since.                                                           *)
(***************************************************************************)
MaxSlots == 3
MaxUpvalueObjects == 5

AllUpvalues(r) == {o \in 1..Len(r.objects) : r.objects[o].type = "OBJECT_TYPE_UPVALUE"}

\* the open-upvalue list from its head; fuel stops the walk on a cycle
RECURSIVE upvalue_list(_, _, _)
upvalue_list(objects, upvalue, fuel) ==
    IF upvalue = NULL \/ fuel = 0 THEN << >>
    ELSE <<upvalue>> \o upvalue_list(objects, objects[upvalue].next, fuel - 1)

OpenUpvalues(r) == upvalue_list(r.objects, r.open_upvalues, Len(r.objects) + 1)

OpenTargets(r) == [i \in 1..Len(OpenUpvalues(r)) |-> r.objects[OpenUpvalues(r)[i]].target]

\* the listed upvalue that targets this slot
OpenUpvalueAt(r, target) ==
    LET listed == {OpenUpvalues(r)[i] : i \in 1..Len(OpenUpvalues(r))}
    IN IF \E u \in listed : r.objects[u].target = target
       THEN CHOOSE u \in listed : r.objects[u].target = target
       ELSE NULL

RECURSIVE push_numbers(_, _)
push_numbers(m, n) ==
    IF n = 0 THEN m ELSE vm_stack_push(push_numbers(m, n - 1), NUMBER_VALUE(n))

InitUpvalues ==
    /\ source = << >> /\ pc = "upvalues" /\ result = "NONE" /\ frame = 0 /\ ip = 0
    /\ parser = NULL /\ control = << >>
    /\ IsVM(push_numbers(vm_create, MaxSlots))
    /\ abstract = {}
    /\ last = NoCall

Capture ==
    \E target \in 0..(sp - 1) :
        LET return(captured) ==
                /\ Store(captured.vm)
                /\ last' = [op |-> "capture_upvalue", target |-> target,
                            upvalue |-> captured.upvalue,
                            existing |-> OpenUpvalueAt(root, target),
                            allocated |-> Len(captured.vm.root.objects) - Len(root.objects)]
        IN /\ pc = "upvalues"
           /\ Cardinality(AllUpvalues(root)) < MaxUpvalueObjects
           /\ return(capture_upvalue(VM, target))
           /\ abstract' = abstract \cup {target}
           /\ UNCHANGED regs

Close ==
    \E target \in 0..(sp - 1) :
        /\ pc = "upvalues"
        /\ Store(close_upvalue(VM, target))
        /\ abstract' = {t \in abstract : t < target}
        /\ last' = [op |-> "close_upvalue", target |-> target, upvalue |-> NULL,
                    existing |-> NULL, allocated |-> 0]
        /\ UNCHANGED regs

NextUpvalues == Capture \/ Close

SpecUpvalues == InitUpvalues /\ [][NextUpvalues]_vars

\* C4: the open-upvalue list is strictly descending by target (so no two
\* entries share a target), it lists exactly the captured and not yet closed
\* slots, every listed upvalue is open, and a capture of a slot that is
\* already listed returns the listed entry and allocates nothing.
C4_OpenListSorted ==
    /\ \A i \in 1..Len(OpenTargets(root)) : \A j \in 1..Len(OpenTargets(root)) :
          i < j => OpenTargets(root)[i] > OpenTargets(root)[j]
    /\ {OpenTargets(root)[i] : i \in 1..Len(OpenTargets(root))} = abstract
    /\ \A u \in AllUpvalues(root) :
          (root.objects[u].target # TARGET_CLOSED) <=> (OpenUpvalueAt(root, root.objects[u].target) = u)
    /\ last.op = "capture_upvalue" =>
          /\ root.objects[last.upvalue].target = last.target
          /\ IF last.existing # NULL
             THEN last.upvalue = last.existing /\ last.allocated = 0
             ELSE last.allocated = 1

\* a capture between two listed slots, then a capture of the slot again
C4_Witness ==
    /\ Len(OpenTargets(root)) = 3
    /\ last.op = "capture_upvalue"
    /\ last.existing # NULL
    /\ last.target = 1
    /\ \E u \in AllUpvalues(root) : root.objects[u].target = TARGET_CLOSED

(***************************************************************************)
(* Spec: vm_run_source on a fresh VM.  compile runs one stage of one       *)
(* parser function per step, vm_run one instruction per step.              *)
(***************************************************************************)
\* vm_run_source up to the first stage of compile
CompileStart(words) ==
    LET start(next) ==
            /\ parser' = next.parser
            /\ control' = next.calls
            /\ root' = next.parser.root
    IN /\ pc = "idle"
       /\ source' = words
       /\ pc' = "compile"
       /\ start(call_function(NULL, Call("compile", [root |-> root, source |-> words])))
       /\ UNCHANGED <<result, frame, ip, frames, frame_count, stack, sp, globals,
                      has_runtime_error, out, aborted, born, pushes, abstract, last>>

\* the next stage of the innermost activation of compile.  A failed
\* assert() ends the process, a loop that cannot end never returns.
CompileStep ==
    LET step(next) ==
            /\ parser' = next.parser
            /\ control' = next.calls \o Tail(control)
            /\ root' = next.parser.root
            /\ aborted' = next.parser.aborted
    IN /\ pc = "compile"
       /\ control # << >>
       /\ ~parser.aborted /\ ~parser.hung
       /\ step(call_function(parser, Head(control)))
       /\ UNCHANGED <<source, pc, result, frame, ip, frames, frame_count, stack, sp,
                      globals, has_runtime_error, out, born, pushes, abstract, last>>

\* vm_run_source from the return of compile to the first instruction: the
\* closure of the script and its call frame
RunStart ==
    LET func == parser.returned
        enter(called) ==
            /\ Store(IF called.vm.frame_count = 0
                     THEN [called.vm EXCEPT !.aborted = TRUE]
                     ELSE called.vm)
            /\ frame' = called.vm.frame_count
            /\ ip' = IF called.vm.frame_count = 0 THEN 0
                     ELSE called.vm.frames[called.vm.frame_count].ip
        call_closure(pushed, closure) == enter(vm_call(pushed, closure, 0, 0))
        closure(created) ==
            call_closure(vm_stack_push(vm_stack_pop(created.vm), OBJECT_VALUE(created.closure)),
                         OBJECT_VALUE(created.closure))
    IN /\ pc = "compile"
       /\ control = << >>
       /\ ~aborted /\ ~parser.hung
       /\ IF func = NULL
          THEN /\ pc' = "done"
               /\ result' = "RUN_COMPILE_ERROR"
               /\ UNCHANGED <<frame, ip, vmvars>>
          ELSE /\ pc' = "run"
               /\ closure(create_closure(vm_stack_push(VM, OBJECT_VALUE(func)), func))
               /\ UNCHANGED result
       /\ last' = [op |-> "vm_run_source", vm |-> VM]
       /\ UNCHANGED <<source, parser, control, abstract>>

\* what clock() / CLOCKS_PER_SEC may give
ClockTimes == {0, 1}

\* the inputs of the instruction at ip: the time, when it is a call
InstructionTimes ==
    IF ip_in_bounds(VM, frame, ip, 1) /\ READ_BYTE(VM, frame, ip) = OP_CALL
    THEN ClockTimes ELSE {0}

\* one instruction of vm_run, and the return of vm_run_source behind the
\* last one.  last.calls lists the calls of closures that vm_run has
\* entered and not yet returned from, the innermost last: the state at
\* the CALL.  last.call is the call that this instruction returned from.
Run ==
    LET opcode == IF ip_in_bounds(VM, frame, ip, 1) THEN READ_BYTE(VM, frame, ip) ELSE 0
        calls == IF last.op = "vm_run" THEN last.calls ELSE << >>
        entered ==
            [op |-> "call", callee |-> frame_count + 1, frame_count |-> frame_count,
             sp |-> sp, pushes |-> pushes, frame |-> frame, ip |-> ip,
             arg_count |-> IF ip_in_bounds(VM, frame, ip, 2)
                           THEN READ_BYTE(VM, frame, ip + 1) ELSE 0]
        returns ==
            opcode = OP_RETURN /\ calls # << >> /\ calls[Len(calls)].callee = frame_count
        return(after) ==
            /\ Store(IF after.result = "RUN_OK"
                        /\ (after.vm.sp # 0 \/ after.vm.frame_count # 0)
                     THEN [after.vm EXCEPT !.aborted = TRUE]
                     ELSE after.vm)
            /\ frame' = after.frame
            /\ ip' = after.ip
            /\ result' = after.result
            /\ pc' = IF after.result = "NONE" THEN "run" ELSE "done"
    IN /\ pc = "run"
       /\ ~aborted
       /\ \E time \in InstructionTimes : return(vm_run_instruction(VM, frame, ip, time))
       /\ last' = [op |-> "vm_run", vm |-> VM, frame |-> frame, ip |-> ip,
                   opcode |-> opcode,
                   calls |-> IF opcode = OP_CALL /\ frame_count' = frame_count + 1
                             THEN Append(calls, entered)
                             ELSE IF returns THEN SubSeq(calls, 1, Len(calls) - 1)
                             ELSE calls,
                   call |-> IF returns THEN calls[Len(calls)] ELSE NoCall]
       /\ UNCHANGED <<source, parser, control, abstract>>

\* a block in a block in a block ..., each with one local: one local more
\* than a function can hold, slot 0 counted
LocalsProgram ==
    [i \in 1..(4 * COMPILER_MAX_LOCALS) |->
        CASE i % 4 = 1 -> "{"
          [] i % 4 = 2 -> "var"
          [] i % 4 = 3 -> "a"
          [] OTHER -> ";"]

\* the sources given to vm_run_source
Programs ==
    {
      \* more locals than a function can hold
      LocalsProgram,
      \* the recursion that never returns
      <<"fun", "f", "(", ")", "{", "f", "(", ")", ";", "}", "f", "(", ")",
        ";">>,
      \* the same recursion, with a call without its argument in the deepest
      \* frame there can be
      <<"var", "b", "=", "2", "*", "7", "*", "3", "*", "3", "*", "2", "+", "2", ";",
        "var", "c", "=", "0", ";",
        "fun", "f", "(", "a", ")", "{", "c", "=", "c", "+", "1", ";",
        "if", "(", "c", ">", "b", ")", "f", "(", ")", ";", "f", "(", "a", ")", ";", "}",
        "f", "(", "1", ")", ";">>,
      \* a counter closed over by the function returned
      <<"fun", "f", "(", ")", "{", "var", "c", "=", "0", ";", "fun", "g",
        "(", ")", "{", "c", "=", "c", "+", "1", ";", "return", "c", ";", "}",
        "return", "g", ";", "}", "var", "j", "=", "f", "(", ")", ";",
        "print", "j", "(", ")", ";", "print", "j", "(", ")", ";">>,
      \* break out of two loops with a captured local in the outer one
      <<"var", "g", "=", "false", ";", "while", "(", "true", ")", "{", "var",
        "a", "=", "1", ";", "while", "(", "true", ")", "{", "if", "(", "g",
        ")", "break", "2", ";", "fun", "f", "(", ")", "{", "a", ";", "}",
        "g", "=", "true", ";", "}", "}", "print", "7", ";">>,
      \* a runtime error with an operand on the stack
      <<"print", "-", "nil", ";">>,
      \* break outside of a loop
      <<"break", ";">>,
      \* a switch that is still open at the end of the source
      <<"switch", "(", "1", ")", "{", "case", "1", ":">>,
      \* calls with the wrong and the right number of arguments
      <<"fun", "f", "(", "a", ",", "b", ")", "{", "print", "a", "+", "b",
        ";", "}", "\n", "f", "(", "1", ",", "2", ")", ";", "f", "(", "\"a\"",
        ",", "\"b\"", ")", ";", "\n", "f", "(", "1", ")", ";">>,
      \* globals: defined, assigned, read, assigned before defined
      <<"var", "a", "=", "1", ";", "a", "=", "a", "+", "2", ";", "print",
        "a", ";", "\n", "b", "=", "1", ";">>,
      \* nested scopes with captured and plain locals
      <<"{", "var", "a", "=", "1", ";", "{", "var", "b", "=", "2", ";",
        "var", "c", ";", "\n", "fun", "f", "(", ")", "{", "return", "a", "+",
        "b", ";", "}", "\n", "print", "f", "(", ")", ";", "}", "}">>,
      \* the natives
      <<"print", "clock", "(", ")", ";", "printf", "(", "\"a\"", ",", "1",
        ")", ";", "\n", "print", "tostring", "(", "nil", ")", "+", "\"b\"",
        ";", "dump", "(", "true", ")", ";", "assert", "(", "false", ")", ";">>,
      \* loops, continue, the conditional and the logical operators
      <<"for", "(", "var", "j", "=", "0", ";", "j", "<", "3", ";", "j", "=",
        "j", "+", "1", ")", "{", "\n", "if", "(", "j", "==", "1", ")",
        "continue", ";", "\n", "print", "j", ">", "1", "?", "j", ":", "!",
        "j", ";", "}", "\n", "print", "nil", "or", "2", "and", "3", ";">>,
      \* a switch and the arithmetic operators
      <<"switch", "(", "7", "-", "3", "*", "2", ")", "{", "case", "0", ":",
        "print", "0", ";", "case", "1", ":", "print", "2", "/", "1", ";",
        "default", ":", "print", "3", ";", "}">>,
      \* names that begin like keywords
      <<"var", "fa", "=", "1", ";", "var", "classy", "=", "fa", ";", "\n",
        "var", "cun", "=", "1", ";", "print", "calse", ";", "print", "cor", ";">>,
      \* a syntax error
      <<"print", ";", "var", "1", ";", "\n", "print", "2", ";">>,
      \* a parameter read by a function declared in the body
      <<"fun", "f", "(", "a", ")", "{", "fun", "g", "(", ")", "{", "return",
        "a", ";", "}", "return", "g", ";", "}", "\n", "print", "f", "(", "1",
        ")", "(", ")", ";">>
    }

\* main.c: the text interpret prints for a result
result_bytes(run_result) ==
    <<82, 101, 115, 117, 108, 116, 58, 32>> \o
    CASE run_result = "RUN_OK" -> <<79, 75, 10>>
      [] run_result = "RUN_COMPILE_ERROR" ->
             <<67, 111, 109, 112, 105, 108, 101, 32, 101, 114, 114, 111, 114, 10>>
      [] run_result = "RUN_RUNTIME_ERROR" ->
             <<82, 117, 110, 116, 105, 109, 101, 32, 101, 114, 114, 111, 114, 10>>

\* main.c: what interpret returns to run_file and run_file to main, which
\* returns it as the exit code
interpret(run_result) == 0

\* main.c: interpret behind vm_run_source, and the return of main
Exit ==
    /\ pc = "done"
    /\ ~aborted
    /\ pc' = "exit"
    /\ out' = print_text(VM, result_bytes(result)).out
    /\ last' = [op |-> "main", result |-> result, exit_code |-> interpret(result)]
    /\ UNCHANGED <<source, result, frame, ip, parser, control, frames, frame_count,
                   stack, sp, root, globals, has_runtime_error, aborted, born, pushes,
                   abstract>>

Init ==
    /\ source = << >> /\ pc = "idle" /\ result = "NONE" /\ frame = 0 /\ ip = 0
    /\ parser = NULL /\ control = << >>
    /\ IsVM(vm_create)
    /\ abstract = NULL
    /\ last = NoCall

Next ==
    \/ \E words \in Programs : CompileStart(words)
    \/ CompileStep
    \/ RunStart
    \/ Run
    \/ Exit

Spec == Init /\ [][Next]_vars

(***************************************************************************)
(* Claims about Spec.                                                      *)
(***************************************************************************)
\* the instruction the last step of vm_run executed was a CALL, and the
\* value it called
LastCall == last.op = "vm_run" /\ last.opcode = OP_CALL
LastCallArgCount == READ_BYTE(last.vm, last.frame, last.ip + 1)
LastCallee == stack_read(last.vm, last.vm.sp - LastCallArgCount - 1)
LastCalleeIsClosure == IS_OBJECT_TYPE(last.vm.root.objects, LastCallee, "OBJECT_TYPE_CLOSURE")
LastCalleeArity == last.vm.root.objects[last.vm.root.objects[LastCallee.as].function].arity

\* the runtime error the run ended with
LastError == out[Len(out)].format

\* C11 as stated: frame_count never exceeds VM_FRAMES_MAX, and every CALL
\* on a closure with VM_FRAMES_MAX frames in use raises 'Call stack
\* overflow' and pushes no frame.
C11_AsStated ==
    /\ frame_count <= VM_FRAMES_MAX
    /\ (LastCall /\ last.vm.frame_count = VM_FRAMES_MAX /\ LastCalleeIsClosure) =>
          /\ result = "RUN_RUNTIME_ERROR"
          /\ LastError = "Call stack overflow."
          /\ frame_count = VM_FRAMES_MAX

\* C11: frame_count never exceeds VM_FRAMES_MAX; a CALL on a closure with
\* VM_FRAMES_MAX frames in use ends the run with a runtime error and pushes
\* no frame: 'Call stack overflow.' when the call has the number of
\* arguments the closure expects, the arity error otherwise, since call
\* compares the arguments first.
C11_FrameDepth ==
    /\ frame_count <= VM_FRAMES_MAX
    /\ (LastCall /\ last.vm.frame_count = VM_FRAMES_MAX /\ LastCalleeIsClosure) =>
          /\ result = "RUN_RUNTIME_ERROR"
          /\ pc = "done" \/ pc = "exit"
          /\ has_runtime_error
          /\ LastError = IF LastCalleeArity = LastCallArgCount
                         THEN "Call stack overflow."
                         ELSE "Expected %zu arguments but got %zu."
          /\ frame_count = VM_FRAMES_MAX
          /\ \A i \in 1..VM_FRAMES_MAX :
                /\ frames[i].closure = last.vm.frames[i].closure
                /\ frames[i].base_pointer = last.vm.frames[i].base_pointer

\* the call of f in frame VM_FRAMES_MAX of the recursion has failed
C11_Witness ==
    /\ LastCall /\ last.vm.frame_count = VM_FRAMES_MAX /\ LastCalleeIsClosure
    /\ LastCalleeArity = LastCallArgCount
    /\ LastError = "Call stack overflow."
    /\ frame_count = VM_FRAMES_MAX

(***************************************************************************)
(* SpecStack: vm_run in the deepest frames of a recursion that fills the   *)
(* value stack,                                                            *)
(*     fun f() { dump(1, ..., 1, f()); } f();                              *)
(* with UINT8_MAX - 1 arguments 1 before the call of f.  A frame of f      *)
(* holds the closure f, the native dump and the arguments: UINT8_MAX + 1   *)
(* slots when f is called again.  The states before the last frames are   *)
(* written down as the run reaches them, not stepped through.              *)
(***************************************************************************)
StackProgram ==
    <<"fun", "f", "(", ")", "{", "dump", "(">>
       \o [i \in 1..(2 * (UINT8_MAX - 1)) |-> IF i % 2 = 1 THEN "1" ELSE ","]
       \o <<"f", "(", ")", ")", ";", "}", "f", "(", ")", ";">>

\* the chunk compile gives f: GET_GLOBAL dump, CONST 1 for each argument,
\* GET_GLOBAL f, CALL 0, CALL UINT8_MAX, POP, NIL, RETURN
StackFunctionChunk(dump_name, f_name) ==
    [code |-> <<OP_GET_GLOBAL, 0>>
                 \o [i \in 1..(2 * (UINT8_MAX - 1)) |-> IF i % 2 = 1 THEN OP_CONST ELSE 1]
                 \o <<OP_GET_GLOBAL, 2, OP_CALL, 0, OP_CALL, UINT8_MAX,
                      OP_POP, OP_NIL, OP_RETURN>>,
     line_infos |-> <<[line |-> 1, bytes |-> 2 * UINT8_MAX + 9]>>,
     values |-> <<OBJECT_VALUE(dump_name), NUMBER_VALUE(1), OBJECT_VALUE(f_name)>>]

\* the chunk of the script: CLOSURE f, DEFINE_GLOBAL f, GET_GLOBAL f,
\* CALL 0, POP, NIL, RETURN
StackScriptChunk(f_name, f_function) ==
    [code |-> <<OP_CLOSURE, 1, OP_DEFINE_GLOBAL, 0, OP_GET_GLOBAL, 0, OP_CALL, 0,
                OP_POP, OP_NIL, OP_RETURN>>,
     line_infos |-> <<[line |-> 1, bytes |-> 11]>>,
     values |-> <<OBJECT_VALUE(f_name), OBJECT_VALUE(f_function)>>]

\* the objects of the run: those of vm_create, the two functions and the
\* name f of compile, the closure of the script of vm_run_source and the
\* closure the script makes of f.  Returns [root, script, f, dump]: the
\* root and the two closures and the native as objects.
StackObjects ==
    LET m == vm_create
        dump_name == table_get_by_string(m.root.objects, m.root.strings, Ascii["dump"]).key
        dump == table_get(m.root.objects, m.globals, OBJECT_VALUE(dump_name)).value.as
        closures(r, script, f_name, f) ==
            LET filled == [r EXCEPT !.objects[script].chunk = StackScriptChunk(f_name, f),
                                    !.objects[f].name = f_name,
                                    !.objects[f].chunk = StackFunctionChunk(dump_name, f_name)]
                script_closure == create_closure_object(filled, script)
                f_closure == create_closure_object(script_closure.root, f)
            IN [root |-> f_closure.root, script |-> script_closure.object,
                f |-> f_closure.object, dump |-> dump, f_name |-> f_name]
        functions(script) ==
            LET name == create_string_object(script.root, Ascii["f"])
                f == create_function_object(name.root)
            IN closures(f.root, script.object, name.object, f.object)
    IN functions(create_function_object(m.root))

\* the vm_t after `pushed` pushes of the frame number frames_in_use, a
\* frame of f, for the vm_t m of vm_create and the objects o of the run.
\* Slot 0 holds the closure of the script; the slots of a frame of f are the
\* closure f, dump and the arguments.
StackStateOf(m, o, frames_in_use, pushed) ==
    LET slots == UINT8_MAX + 1
        base(k) == 1 + slots * (k - 2)
        top == base(frames_in_use) + 1 + pushed
        script_closure == OBJECT_VALUE(o.script)
        f_closure == OBJECT_VALUE(o.f)
        dump == OBJECT_VALUE(o.dump)
        slot(s, first, callee, native, argument) ==
            IF s = 0 THEN first
            ELSE IF (s - 1) % slots = 0 THEN callee
            ELSE IF (s - 1) % slots = 1 THEN native
            ELSE argument
        fill(first, callee, native, argument, born0) ==
            [m EXCEPT
               !.root = o.root,
               !.globals = table_set(o.root.objects, m.globals, OBJECT_VALUE(o.f_name),
                                     callee).table,
               !.frame_count = frames_in_use,
               !.frames = [k \in 1..frames_in_use |->
                              IF k = 1
                              THEN [closure |-> first.as, ip |-> 8, base_pointer |-> 0]
                              ELSE [closure |-> callee.as,
                                    ip |-> IF k = frames_in_use THEN 0
                                           ELSE 2 * UINT8_MAX + 4,
                                    base_pointer |-> base(k)]],
               !.sp = top,
               !.stack = rows_build(top, [s \in 0..(top - 1) |->
                                            slot(s, first, callee, native, argument)]),
               !.born = rows_build(top, [s \in 0..(top - 1) |->
                                           IF s = 0 THEN born0 ELSE born0 + s + 1]),
               !.pushes = born0 + top]
    IN fill(script_closure, f_closure, dump, NUMBER_VALUE(1), m.pushes + 2)

StackState(frames_in_use, pushed) ==
    StackStateOf(vm_create, StackObjects, frames_in_use, pushed)

\* the pushes of the last frame that a behaviour may start at
StackStarts == 60

\* the states of the last frame there can be, frame VM_FRAMES_MAX, up to
\* the last push that finds room
InitStack ==
    \E pushed \in (UINT8_MAX - StackStarts)..(UINT8_MAX - 1) :
        /\ source = StackProgram /\ pc = "run" /\ result = "NONE"
        /\ frame = VM_FRAMES_MAX /\ ip = 2 * pushed
        /\ parser = NULL /\ control = << >>
        /\ IsVM(StackState(VM_FRAMES_MAX, pushed))
        /\ abstract = NULL
        /\ last = NoCall

NextStack == Run

SpecStack == InitStack /\ [][NextStack]_vars

\* the instructions that push without popping first
PushingOpcodes ==
    {OP_CONST, OP_CONST_LONG, OP_NIL, OP_TRUE, OP_FALSE, OP_GET_GLOBAL, OP_GET_GLOBAL_LONG,
     OP_GET_LOCAL, OP_GET_LOCAL_LONG, OP_GET_UPVALUE, OP_GET_UPVALUE_LONG, OP_CLOSURE}

\* the last step of vm_run was a push on the full stack
LastPushOnFullStack ==
    last.op = "vm_run" /\ last.opcode \in PushingOpcodes /\ last.vm.sp = VM_STACK_MAX

\* C12: a push that would exceed the capacity of the value stack ends the
\* run with RUN_RUNTIME_ERROR: no run fails the 'stack is full' assertion of
\* vm_stack_push, and none has more than VM_STACK_MAX live slots.
C12_StackOverflowIsError ==
    /\ sp <= VM_STACK_MAX
    /\ LastPushOnFullStack =>
          /\ ~aborted
          /\ has_runtime_error
          /\ result = "RUN_RUNTIME_ERROR"

\* C20: the value stack, which never holds more than VM_STACK_MAX slots,
\* has room for VM_FRAMES_MAX frames of 256 slots.
C20_StackCapacity ==
    /\ sp <= VM_STACK_MAX
    /\ VM_STACK_MAX >= VM_FRAMES_MAX * 256


(***************************************************************************)
(* Claims about the exit code of main.                                     *)
(***************************************************************************)
\* C19 as stated: the exit code of the process is 0 when the source runs
\* with RUN_OK and is not 0 when vm_run_source returns RUN_COMPILE_ERROR or
\* RUN_RUNTIME_ERROR.
C19_ExitCode ==
    last.op = "main" =>
        /\ last.result = "RUN_OK" => last.exit_code = 0
        /\ last.result \in {"RUN_COMPILE_ERROR", "RUN_RUNTIME_ERROR"} => last.exit_code # 0

(***************************************************************************)
(* Claims about the scanner.                                               *)
(***************************************************************************)
\* the reserved words
ReservedWords ==
    {"and", "or", "if", "else", "while", "for", "fun", "return", "var", "const", "true",
     "false", "nil", "print", "class", "this", "super", "switch", "case", "default",
     "break", "continue"}

\* a token scan_token made of a lexeme of the shape of an identifier
IsWordToken(token) ==
    /\ token.type \notin {"TOKEN_ERROR", "TOKEN_EOF"}
    /\ token.lexeme \in DOMAIN Ascii
    /\ is_identifier_lexeme(Ascii[token.lexeme])

\* C18 as stated: a lexeme of the shape of an identifier is scanned as a
\* keyword token exactly when it is one of the reserved words, and as
\* IDENTIFIER otherwise.
C18_Keywords ==
    (pc = "compile" /\ IsWordToken(parser.current)) =>
        (parser.current.type # "TOKEN_IDENTIFIER" <=> parser.current.lexeme \in ReservedWords)

(***************************************************************************)
(* Claims about the compiler.                                              *)
(***************************************************************************)
\* the instruction end_scope owes a local
ScopeExit(local) == IF local.is_captured THEN OP_CLOSE_UPVALUE ELSE OP_POP

\* C13: after end_scope local_count is what it was before the matching
\* begin_scope, and end_scope has emitted one instruction for each local
\* declared in between, the last local first: CLOSE_UPVALUE for a captured
\* local and POP for any other.
C13_ScopeLaw ==
    (pc # "idle" /\ parser.closed.op = "end_scope") =>
        LET closed == parser.closed
        IN /\ closed.after = closed.before
           /\ Len(closed.code) = Len(closed.locals)
           /\ \A i \in 1..Len(closed.locals) :
                 closed.code[i] = ScopeExit(closed.locals[Len(closed.locals) + 1 - i])

\* a scope with a captured local below a plain one has been closed
C13_Witness ==
    /\ pc # "idle" /\ parser.closed.op = "end_scope"
    /\ Len(parser.closed.locals) >= 2
    /\ \E i, j \in 1..Len(parser.closed.locals) :
          /\ i < j
          /\ parser.closed.locals[i].is_captured
          /\ ~parser.closed.locals[j].is_captured
    /\ parser.closed.code[1] = OP_POP
    /\ parser.closed.code[Len(parser.closed.code)] = OP_CLOSE_UPVALUE

\* the sum of the run lengths of line_infos[i], line_infos[i + 1], ...
RECURSIVE run_lengths(_, _)
run_lengths(line_infos, i) ==
    IF i > Len(line_infos) THEN 0
    ELSE line_infos[i].bytes + run_lengths(line_infos, i + 1)

\* the chunks of the function objects
Chunks ==
    {root.objects[o].chunk :
        o \in {i \in 1..Len(root.objects) : root.objects[i].type = "OBJECT_TYPE_FUNCTION"}}

\* C14: in every chunk the run lengths of line_infos add up to the number
\* of code bytes and the lines of line_infos do not decrease; the line of
\* the next write of the compiler to the chunk of a function it is compiling
\* is not below the chunk's last line, and the assert of chunk_write8 on
\* the order of the lines has not failed.
C14_LineInfos ==
    /\ \A chunk \in Chunks :
          /\ run_lengths(chunk.line_infos, 1) = Len(chunk.code)
          /\ \A i \in 1..Len(chunk.line_infos) : chunk.line_infos[i].bytes >= 1
          /\ \A i \in 2..Len(chunk.line_infos) :
                chunk.line_infos[i - 1].line <= chunk.line_infos[i].line
    /\ pc # "idle" =>
          /\ ~parser.unordered
          /\ \A c \in 1..Len(parser.compilers) :
                chunk_lines_ordered(root.objects[parser.compilers[c].function].chunk,
                                    parser.previous.line)

\* a chunk written on three lines, with more than one byte on a line
C14_Witness ==
    \E chunk \in Chunks :
        /\ Len(chunk.line_infos) >= 3
        /\ \E i \in 1..Len(chunk.line_infos) : chunk.line_infos[i].bytes >= 2
        /\ Len(chunk.code) > Len(chunk.line_infos)

(***************************************************************************)
(* SpecJumps: compile behind the body of a statement whose jumps are about *)
(* as far as an int16_t reaches,                                           *)
(*     while (true) print 1 + 1 + ... + 1;                                 *)
(*     if (true) print -1 + 1 + ... + 1;                                   *)
(* A sum of n terms takes 3 * n bytes with its PRINT, and one more when    *)
(* the first term is negated.  The initial states                          *)
(* are the states of compile when the body has been compiled, written down *)
(* instead of computed in some ten thousand steps each.                    *)
(***************************************************************************)
\* a sum of terms: 1 + 1 + ... + 1
JumpSum(terms) == [i \in 1..(2 * terms - 1) |-> IF i % 2 = 1 THEN "1" ELSE "+"]

\* the words of the source: kind is "while" or "if"
JumpProgram(kind, negated, terms) ==
    <<kind, "(", "true", ")", "print">> \o (IF negated THEN <<"-">> ELSE << >>) \o
    JumpSum(terms) \o <<";">>

\* the code of the script behind the body: the condition, the jump over the
\* body with its operand still 0, and the body
JumpCode(negated, terms) ==
    <<OP_TRUE, OP_JUMP_IF_FALSE, 0, 0, OP_POP, OP_CONST, 0>> \o
    (IF negated THEN <<OP_NEGATE>> ELSE << >>) \o
    [i \in 1..(3 * (terms - 1)) |-> IF i % 3 = 1 THEN OP_CONST
                                    ELSE IF i % 3 = 2 THEN 0 ELSE OP_ADD] \o
    <<OP_PRINT>>

\* the parser behind the body; P is the parser compile starts with
JumpParserOf(P, kind, words, code) ==
    [P EXCEPT
        !.scanner.pos = Len(words) + 1,
        !.previous = [type |-> "TOKEN_SEMICOLON", lexeme |-> ";", line |-> 1],
        !.current = [type |-> "TOKEN_EOF", lexeme |-> "", line |-> 1],
        !.root.objects[get_compiler(P).function].chunk =
            [code |-> code,
             line_infos |-> <<[line |-> 1, bytes |-> Len(code)]>>,
             values |-> <<NUMBER_VALUE(1)>>],
        !.compilers[1].loops =
            IF kind = "while"
            THEN <<[continue_addr |-> 0, break_jumps |-> << >>, scope_depth_at_start |-> 0]>>
            ELSE << >>]

JumpParser(kind, negated, terms) ==
    JumpParserOf(begin_compiler(parser_init(vm_create.root,
                                            JumpProgram(kind, negated, terms)),
                                "TYPE_SCRIPT"),
                 kind, JumpProgram(kind, negated, terms), JumpCode(negated, terms))

\* the activations behind the body: the statement, which goes on with its
\* jumps, in a declaration of compile
JumpControl(kind) ==
    <<IF kind = "while"
      THEN Activation("while_statement", 2, [start_addr |-> 0, jump_to_end |-> 1])
      ELSE Activation("if_statement", 2, [jump_to_else |-> 1]),
      Activation("declaration", 1, << >>),
      Activation("compile", 1, << >>)>>

\* the number of lengths of the sum in the initial states, and the longest:
\* two terms more than INT16_MAX bytes hold
JumpStarts == 6
MaxJumpTerms == (INT16_MAX + 1) \div 3 + 2

InitJumps ==
    \E kind \in {"while", "if"}, negated \in BOOLEAN,
       terms \in (MaxJumpTerms - JumpStarts + 1)..MaxJumpTerms :
        /\ source = JumpProgram(kind, negated, terms)
        /\ pc = "compile" /\ result = "NONE" /\ frame = 0 /\ ip = 0
        /\ parser = JumpParser(kind, negated, terms)
        /\ control = JumpControl(kind)
        /\ IsVM([vm_create EXCEPT !.root = JumpParser(kind, negated, terms).root])
        /\ abstract = NULL
        /\ last = NoCall

NextJumps == CompileStep \/ RunStart

SpecJumps == InitJumps /\ [][NextJumps]_vars

\* the int16_t in the two operand bytes of a jump
jump_displacement(bytes) ==
    IF bytes[2] + 256 * bytes[3] > INT16_MAX
    THEN bytes[2] + 256 * bytes[3] - 65536
    ELSE bytes[2] + 256 * bytes[3]

\* the distance a jump was asked for
JumpDistance(jump) == jump.to - jump.from - 3

JumpInRange(jump) == JumpDistance(jump) >= INT16_MIN /\ JumpDistance(jump) <= INT16_MAX

\* C15: a jump whose distance is in [-32768, 32767] is in the chunk as one
\* of the three jump instructions with that distance as its displacement;
\* for any other distance emit_jump_to emits nothing and patch_jump_from
\* leaves the operand as it is, the compile error "Can't jump this far." is
\* reported unless the parser was in panic mode, and compile fails.
C15_JumpRange ==
    \A i \in 1..Len(parser.jumps) :
        LET jump == parser.jumps[i]
        IN IF JumpInRange(jump)
           THEN /\ jump.after # << >>
                /\ jump.after[1] \in {OP_JUMP, OP_JUMP_IF_TRUE, OP_JUMP_IF_FALSE}
                /\ jump_displacement(jump.after) = JumpDistance(jump)
                /\ jump.emitted = IF jump.fn = "emit_jump_to" THEN 3 ELSE 0
                /\ jump.reported = 0
           ELSE /\ jump.emitted = 0
                /\ jump.after = jump.before
                /\ parser.had_error
                /\ ~jump.panic_mode =>
                      /\ jump.reported = 1
                      /\ \E e \in 1..Len(parser.errors) :
                            parser.errors[e].message = "Can't jump this far."
                /\ pc # "compile" => (parser.returned = NULL /\ pc # "run")

\* compile has ended behind a jump back of exactly INT16_MIN, or behind a
\* patch that was one byte too far
C15_Witness ==
    /\ pc # "compile"
    /\ \E i \in 1..Len(parser.jumps) :
          \/ /\ parser.jumps[i].fn = "emit_jump_to"
             /\ JumpDistance(parser.jumps[i]) = INT16_MIN
             /\ jump_displacement(parser.jumps[i].after) = INT16_MIN
             /\ pc = "run"
          \/ /\ parser.jumps[i].fn = "patch_jump_from"
             /\ JumpDistance(parser.jumps[i]) = INT16_MAX + 1
             /\ ~parser.jumps[i].panic_mode
             /\ result = "RUN_COMPILE_ERROR"

(***************************************************************************)
(* SpecChunk: the compiler adds constants to the chunk of the script in    *)
(* any order: numbers, and the strings of two names.                       *)
(***************************************************************************)
ChunkWords == {"a", "b"}
ChunkNumbers == {0, 1, 2}

\* the values added
ChunkValues ==
    {NUMBER_VALUE(n) : n \in ChunkNumbers} \cup {StringKey(root, w) : w \in ChunkWords}

\* the largest number of constants before which one more is added
MaxConstants == 4

InitChunk ==
    /\ source = << >> /\ pc = "chunk" /\ result = "NONE" /\ frame = 0 /\ ip = 0
    /\ parser = begin_compiler(
                    parser_init(create_strings(vm_create.root, ChunkWords), << >>),
                    "TYPE_SCRIPT")
    /\ control = << >>
    /\ IsVM([vm_create EXCEPT !.root = parser.root])
    /\ abstract = NULL
    /\ last = NoCall

\* add_value: chunk_add_value on the chunk of the script
AddValue ==
    LET store(value, added) ==
            /\ parser' = added.parser
            /\ root' = added.parser.root
            /\ last' = [op |-> "chunk_add_value", chunk |-> get_chunk(parser),
                        value |-> value, index |-> added.index]
    IN /\ pc = "chunk"
       /\ Len(get_chunk(parser).values) < MaxConstants
       /\ \E value \in ChunkValues : store(value, add_value(parser, value))
       /\ UNCHANGED <<source, pc, result, frame, ip, control, frames, frame_count, stack,
                      sp, globals, has_runtime_error, out, aborted, born, pushes,
                      abstract>>

NextChunk == AddValue

SpecChunk == InitChunk /\ [][NextChunk]_vars

\* the indices of the values of a chunk that are equal to value
EqualValues(chunk, value) ==
    {i \in 1..Len(chunk.values) : values_equal(value, chunk.values[i])}

\* C16: chunk_add_value of a value equal to one in the pool returns the
\* index of that one and leaves the pool as it is, and of any other value
\* appends it and returns its index; no two values of the pool are equal.
C16_AddValueIdempotent ==
    /\ \A i, j \in 1..Len(get_chunk(parser).values) :
          values_equal(get_chunk(parser).values[i], get_chunk(parser).values[j]) => i = j
    /\ last.op = "chunk_add_value" =>
          IF EqualValues(last.chunk, last.value) # {}
          THEN /\ last.index + 1 \in EqualValues(last.chunk, last.value)
               /\ get_chunk(parser) = last.chunk
          ELSE /\ last.index = Len(last.chunk.values)
               /\ get_chunk(parser).values = Append(last.chunk.values, last.value)
               /\ get_chunk(parser).code = last.chunk.code
    /\ \A i \in 1..Len(get_chunk(parser).values) :
          chunk_add_value(get_chunk(parser), get_chunk(parser).values[i])
              = [chunk |-> get_chunk(parser), index |-> i - 1]

\* a string and a number that are in the pool, not in the first place, have
\* been added once more
C16_Witness ==
    /\ last.op = "chunk_add_value"
    /\ Len(last.chunk.values) >= 3
    /\ last.index >= 1
    /\ EqualValues(last.chunk, last.value) = {last.index + 1}
    /\ get_chunk(parser) = last.chunk
    /\ \E i, j \in 1..Len(last.chunk.values) :
          IS_NUMBER(last.chunk.values[i]) /\ IS_OBJECT(last.chunk.values[j])


(***************************************************************************)
(* Claims about the termination of compile.                                *)
(***************************************************************************)
\* C21: compile ends for every source: it never enters a loop that cannot
\* end, whatever is still open at the end of the source.
C21_CompileTerminates == pc = "compile" => ~parser.hung

(***************************************************************************)
(* Claims about the error recovery of the compiler.                        *)
(***************************************************************************)
\* the next step of compile is the end of a declaration with panic_mode
\* set: it calls synchronize and returns
SynchronizeNext ==
    /\ pc = "compile" /\ control # << >>
    /\ Head(control).fn = "declaration" /\ Head(control).at = 1
    /\ parser.panic_mode

\* C22: whenever synchronize returns, panic_mode is false.
C22_SynchronizeClearsPanic == [][SynchronizeNext => ~parser'.panic_mode]_vars


(***************************************************************************)
(* Claims about the resolution of names.                                   *)
(***************************************************************************)
\* the next step of compile is variable on a name that is no local of the
\* current function and is one of the directly enclosing function
EnclosingLocalNext ==
    /\ pc = "compile" /\ control # << >>
    /\ Head(control).fn = "variable" /\ Head(control).at = 0
    /\ Len(parser.compilers) >= 2
    /\ ~resolve_local(parser, parser.previous).found
    /\ resolve_local_at_compiler(parser, Len(parser.compilers) - 1, parser.previous).found

\* the slot of that local
EnclosingLocal ==
    resolve_local_at_compiler(parser, Len(parser.compilers) - 1, parser.previous).index

\* C23: resolve_upvalue on a name that resolves to a local of the directly
\* enclosing function marks that local is_captured and gives the function an
\* upvalue with is_local = true and the slot of the local as its index, and
\* no assert() fails.
C23_CaptureEnclosingLocal ==
    [][EnclosingLocalNext =>
          /\ ~parser'.aborted
          /\ parser'.compilers[Len(parser.compilers) - 1].locals[EnclosingLocal + 1].is_captured
          /\ \E u \in 1..Len(get_compiler(parser').upvalues) :
                get_compiler(parser').upvalues[u] = [is_local |-> TRUE, index |-> EnclosingLocal]
      ]_vars


(***************************************************************************)
(* Claims about break and continue.                                        *)
(***************************************************************************)
\* the instruction that removes a local from the stack
Cleanup(local) == IF local.is_captured THEN OP_CLOSE_UPVALUE ELSE OP_POP

\* the slots, of the first local_count of a function, that were declared in
\* a scope deeper than depth
Deeper(locals, local_count, depth) ==
    {i \in 1..local_count : locals[i].depth > depth}

\* the break or continue statement exit of a function with these locals
\* emitted one instruction for each of its locals declared inside the
\* target loop, the topmost first, then its jump, and left the compiler's
\* locals and scope depth as they were
ExitCleansUp(locals, exit) ==
    LET deeper == Deeper(locals, exit.local_count, exit.depth)
    IN /\ exit.unchanged
       /\ Len(exit.code) = Cardinality(deeper) + 3
       /\ exit.code[Cardinality(deeper) + 1] = OP_JUMP
       /\ \A i \in deeper :
             exit.code[1 + Cardinality({j \in deeper : j > i})] = Cleanup(locals[i])

\* C24: a break or continue emits, before its jump, exactly one instruction
\* for each local declared in a scope deeper than the target loop's
\* scope_depth_at_start, CLOSE_UPVALUE for a captured local and POP for the
\* rest, and leaves the locals and the scope depth of the compiler unchanged.
C24_LoopExitCleanup ==
    (pc # "idle" /\ ~parser.aborted) =>
        \A c \in 1..Len(parser.compilers) :
            \A e \in 1..Len(parser.compilers[c].exits) :
                ExitCleansUp(parser.compilers[c].locals, parser.compilers[c].exits[e])

\* the next step of compile is a break or continue statement
LoopExitNext ==
    /\ pc = "compile" /\ control # << >>
    /\ Head(control).fn = "statement" /\ Head(control).at = 0
    /\ check(parser, "TOKEN_BREAK") \/ check(parser, "TOKEN_CONTINUE")

\* the loop offset of that statement
LoopExitOffset == parse_loop_offset(advance(parser)).offset

\* C25: a break or continue in a function without an enclosing loop, or
\* with a loop offset that is 0 or larger than the number of enclosing
\* loops, is reported as a compile error and emits nothing, and no assert()
\* fails.
C25_InvalidLoopExit ==
    [][(/\ LoopExitNext
        /\ \/ Len(get_compiler(parser).loops) = 0
           \/ LoopExitOffset < 1
           \/ LoopExitOffset > Len(get_compiler(parser).loops)) =>
          /\ ~parser'.aborted
          /\ parser'.had_error
          /\ get_chunk(parser').code = get_chunk(parser).code
      ]_vars


(***************************************************************************)
(* Claims about the limits of the compiler.                                *)
(***************************************************************************)
\* add_local has reported that the function holds too many locals
TooManyLocals ==
    \E e \in 1..Len(parser.errors) :
        parser.errors[e].message = "Too many locals variables in function."

\* C26: a function never holds more than COMPILER_MAX_LOCALS locals; the
\* declaration of one more is reported as a compile error, no assert()
\* fails afterwards and compile returns failure.
C26_TooManyLocals ==
    pc # "idle" =>
        /\ \A c \in 1..Len(parser.compilers) :
              Len(parser.compilers[c].locals) <= COMPILER_MAX_LOCALS
        /\ TooManyLocals =>
              /\ ~parser.aborted
              /\ parser.had_error
              /\ pc # "run"
              /\ pc = "done" => result = "RUN_COMPILE_ERROR"


(***************************************************************************)
(* Claims about calls and upvalues in vm_run.                              *)
(***************************************************************************)
\* the last step of vm_run was the RETURN of a call that vm_run entered
LastReturn ==
    /\ last.op = "vm_run" /\ last.opcode = OP_RETURN
    /\ last.call.op = "call"
    /\ ~aborted

\* C27: immediately after the RETURN of a call of a closure, frame_count is
\* what it was before the CALL, sp is the sp before the CALL minus the
\* argument count, the returned value is in the slot of the callee, no slot
\* below it was popped and pushed again since the CALL, and vm_run goes on
\* in the frame of the caller at the instruction behind the CALL.
C27_CallReturn ==
    LastReturn =>
        /\ frame_count = last.call.frame_count
        /\ sp = last.call.sp - last.call.arg_count
        /\ stack_read(VM, last.call.sp - last.call.arg_count - 1) = vm_stack_peek(last.vm, 0)
        /\ \A slot \in 0..(last.call.sp - last.call.arg_count - 2) :
              /\ rows_get(born, slot) <= last.call.pushes
              /\ rows_get(born, slot) = rows_get(last.vm.born, slot)
        /\ pc = "run" /\ result = "NONE"
        /\ frame = last.call.frame
        /\ ip = last.call.ip + 2
        /\ frames[frame].ip = ip

\* a call with two arguments, from a frame that holds values below the
\* callee, has returned
C27_Witness ==
    /\ LastReturn
    /\ last.call.arg_count = 2
    /\ last.call.sp - last.call.arg_count - 1 >= 1
    /\ sp = last.call.sp - 2
    /\ IS_NIL(stack_read(VM, sp - 1))

(***************************************************************************)
(* SpecClosed: capture_upvalue, close_upvalue, the writes of               *)
(* OP_SET_UPVALUE through an upvalue and the writes of OP_SET_LOCAL into   *)
(* a slot, in any order on the slots of one frame.  abstract maps each     *)
(* closed upvalue to the value its slot held when it was closed, or the    *)
(* value written through it since.                                         *)
(***************************************************************************)
MaxClosedObjects == 3

ClosedSlots == 2

WrittenValues == {NUMBER_VALUE(0)}

IsOpen(r, upvalue) == r.objects[upvalue].target # TARGET_CLOSED

InitClosed ==
    /\ source = << >> /\ pc = "closed" /\ result = "NONE" /\ frame = 0 /\ ip = 0
    /\ parser = NULL /\ control = << >>
    /\ IsVM(push_numbers(vm_create, ClosedSlots))
    /\ abstract = << >>
    /\ last = NoCall

CaptureSlot ==
    \E target \in 0..(sp - 1) :
        /\ pc = "closed"
        /\ Cardinality(AllUpvalues(root)) < MaxClosedObjects
        /\ Store(capture_upvalue(VM, target).vm)
        /\ last' = [op |-> "capture_upvalue", target |-> target, vm |-> VM]
        /\ UNCHANGED <<regs, abstract>>

CloseFrom ==
    \E target \in 0..(sp - 1) :
        LET closing == {u \in AllUpvalues(root) :
                           IsOpen(root, u) /\ root.objects[u].target >= target}
        IN /\ pc = "closed"
           /\ Store(close_upvalue(VM, target))
           /\ abstract' = [u \in DOMAIN abstract \cup closing |->
                              IF u \in closing THEN stack_read(VM, root.objects[u].target)
                              ELSE abstract[u]]
           /\ last' = [op |-> "close_upvalue", target |-> target, vm |-> VM]
           /\ UNCHANGED regs

\* OP_SET_UPVALUE: *closure->upvalues[index]->target = PEEK(0)
SetUpvalue ==
    \E upvalue \in AllUpvalues(root) : \E value \in WrittenValues :
        /\ pc = "closed"
        /\ Store(upvalue_write(VM, upvalue, value))
        /\ abstract' = IF upvalue \in DOMAIN abstract
                       THEN [abstract EXCEPT ![upvalue] = value] ELSE abstract
        /\ last' = [op |-> "upvalue_write", target |-> upvalue, vm |-> VM]
        /\ UNCHANGED regs

\* OP_SET_LOCAL: frame->base_pointer[index] = PEEK(0)
SetLocal ==
    \E slot \in 0..(sp - 1) : \E value \in WrittenValues :
        /\ pc = "closed"
        /\ Store(stack_write(VM, slot, value))
        /\ last' = [op |-> "stack_write", target |-> slot, vm |-> VM]
        /\ UNCHANGED <<regs, abstract>>

NextClosed == CaptureSlot \/ CloseFrom \/ SetUpvalue \/ SetLocal

SpecClosed == InitClosed /\ [][NextClosed]_vars

\* C28: close_upvalue(t) closes exactly the open upvalues whose target is
\* slot t or a higher slot; the open upvalues of lower slots stay on the
\* list, in their order, and are unchanged; the stack is unchanged.  A closed
\* upvalue reads the value its slot held when it was closed, or the value
\* written through it since, whatever is written into the slot afterwards,
\* and a write through a closed upvalue changes no stack slot.
C28_CloseUpvalue ==
    /\ last.op = "close_upvalue" =>
          /\ AllUpvalues(root) = AllUpvalues(last.vm.root)
          /\ \A u \in AllUpvalues(last.vm.root) :
                IF IsOpen(last.vm.root, u) /\ last.vm.root.objects[u].target >= last.target
                THEN /\ ~IsOpen(root, u)
                     /\ upvalue_read(VM, u) = stack_read(last.vm, last.vm.root.objects[u].target)
                ELSE root.objects[u] = last.vm.root.objects[u]
          /\ OpenUpvalues(root) =
                SelectSeq(OpenUpvalues(last.vm.root),
                          LAMBDA u : last.vm.root.objects[u].target < last.target)
          /\ stack = last.vm.stack /\ sp = last.vm.sp
    /\ DOMAIN abstract = {u \in AllUpvalues(root) : ~IsOpen(root, u)}
    /\ \A u \in DOMAIN abstract : upvalue_read(VM, u) = abstract[u]
    /\ (last.op = "upvalue_write" /\ ~IsOpen(last.vm.root, last.target)) =>
          /\ stack = last.vm.stack
          /\ \A u \in AllUpvalues(root) \ {last.target} :
                root.objects[u] = last.vm.root.objects[u]

\* close_upvalue(1) with slot 0 and slot 1 captured has closed the upvalue of
\* slot 1 and left the one of slot 0 listed, after a write into slot 1 and
\* a write through an upvalue closed before
C28_Witness ==
    /\ last.op = "close_upvalue"
    /\ last.target = 1
    /\ OpenTargets(last.vm.root) = <<1, 0>>
    /\ OpenTargets(root) = <<0>>
    /\ stack_read(VM, 1) \in WrittenValues
    /\ \E u \in DOMAIN abstract : ~IsOpen(last.vm.root, u) /\ abstract[u] \in WrittenValues

(***************************************************************************)
(* SpecSwitch: vm_run_source on a fresh VM, the source a switch statement  *)
(* over a local variable: each value, each list of case literals, with     *)
(* and without a default arm, and a switch in a switch in a for loop of a  *)
(* function.                                                               *)
(***************************************************************************)
MaxCases == 2

SwitchValues == {"1", "2", "nil", "\"a\""}

CaseLiterals == {"1", "nil", "\"a\""}

\* what the arms print
ArmLexemes == <<"1", "2", "3">>

RECURSIVE switch_arms(_, _)
switch_arms(cases, i) ==
    IF i > Len(cases) THEN << >>
    ELSE <<"case", cases[i], ":", "print", ArmLexemes[i], ";">> \o switch_arms(cases, i + 1)

SwitchProgram(value, cases, with_default) ==
    <<"{", "var", "a", "=", value, ";", "switch", "(", "a", ")", "{">>
    \o switch_arms(cases, 1)
    \o (IF with_default THEN <<"default", ":", "print", "0", ";">> ELSE << >>)
    \o <<"}", "\n", "print", "a", ";", "}">>

SwitchPrograms ==
    {SwitchProgram(value, cases, with_default) :
        value \in SwitchValues,
        cases \in UNION {[1..n -> CaseLiterals] : n \in 0..MaxCases},
        with_default \in BOOLEAN}
    \cup
    {<<"fun", "f", "(", "a", ")", "{", "\n",
       "for", "(", "var", "j", "=", "0", ";", "j", "<", "3", ";", "j", "=", "j",
       "+", "1", ")", "{", "\n",
       "switch", "(", "j", ")", "{", "\n",
       "case", "0", ":", "continue", ";", "\n",
       "case", "1", ":", "switch", "(", "a", ")", "{", "case", "true", ":",
       "print", "3", ";", "default", ":", "print", "clock", "(", ")", ";", "}",
       "print", "1", ";", "\n",
       "case", "2", ":", "break", ";", "}", "\n",
       "print", "j", ";", "}", "}", "\n",
       "f", "(", "false", ")", ";">>}

NextSwitch ==
    \/ \E words \in SwitchPrograms : CompileStart(words)
    \/ CompileStep
    \/ RunStart
    \/ Run
    \/ Exit

SpecSwitch == Init /\ [][NextSwitch]_vars

\* the last step was an instruction of vm_run that stayed in its frame
StepInFrame ==
    /\ last.op = "vm_run"
    /\ pc = "run"
    /\ frame = last.frame
    /\ frame_count = last.vm.frame_count

InArm(arm, addr) == arm.body <= addr /\ addr < arm.end

\* the value of the literal of a case
LiteralIs(token, value) ==
    CASE token.type = "TOKEN_NUMBER" -> value = NUMBER_VALUE(NumberLexemes[token.lexeme])
      [] token.type = "TOKEN_NIL" -> value = NIL_VALUE
      [] token.type = "TOKEN_TRUE" -> value = BOOL_VALUE(TRUE)
      [] token.type = "TOKEN_FALSE" -> value = BOOL_VALUE(FALSE)
      [] token.type = "TOKEN_STRING" ->
             /\ IS_STRING(root.objects, value)
             /\ root.objects[value.as].chars = Ascii[StringLexemes[token.lexeme]]
      [] OTHER -> FALSE

\* the arm that a switch over this value is to run: the first case with the
\* value, else the default arm, else none (0)
ArmOf(arms, value) ==
    LET cases == {i \in 1..Len(arms) : ~arms[i].is_default /\ LiteralIs(arms[i].literal, value)}
        defaults == {i \in 1..Len(arms) : arms[i].is_default}
    IN IF cases # {} THEN CHOOSE i \in cases : \A j \in cases : i <= j
       ELSE IF defaults # {} THEN CHOOSE i \in defaults : TRUE
       ELSE 0

\* the switch statements of the function of the running frame
SwitchesHere ==
    IF pc = "run" /\ source # << >>
    THEN {n \in 1..Len(parser.switches) :
             parser.switches[n].function = frame_function(VM, frame)}
    ELSE {}

\* the value of the hidden local of a switch before the last step
SwitchValue(s) == stack_read(last.vm, last.vm.frames[last.frame].base_pointer + s.local_index)

\* C29: the statements of an arm of a compiled switch are entered only at
\* their beginning and only from the tests of the switch, and the arm entered
\* is the first case whose literal is the switch value, else the default arm;
\* an arm is left only for the end of the switch or for code outside the
\* switch, never for another arm or a test; the tests reach the end of the
\* switch only if no case has the value and there is no default arm; and sp
\* at the end of the statement is what it is at its beginning, the base of
\* the frame plus the locals declared before the switch.
C29_SwitchArms ==
    \A n \in SwitchesHere :
        LET s == parser.switches[n]
        IN /\ (ip = s.start \/ ip = s.end) =>
                  sp = frames[frame].base_pointer + s.local_count
           /\ StepInFrame =>
                  /\ \A i \in 1..Len(s.arms) :
                        /\ (InArm(s.arms[i], last.ip) /\ ~InArm(s.arms[i], ip)) =>
                               (ip = s.exit \/ ip < s.start \/ ip >= s.end)
                        /\ (~InArm(s.arms[i], last.ip) /\ InArm(s.arms[i], ip)) =>
                               /\ ip = s.arms[i].body
                               /\ s.start <= last.ip /\ last.ip < s.arms[i].body
                               /\ \A j \in 1..Len(s.arms) : ~InArm(s.arms[j], last.ip)
                               /\ ArmOf(s.arms, SwitchValue(s)) = i
                  /\ ( /\ s.start <= last.ip /\ last.ip < s.exit
                       /\ \A i \in 1..Len(s.arms) : ~InArm(s.arms[i], last.ip)
                       /\ ip >= s.exit ) =>
                         /\ ip = s.exit
                         /\ ArmOf(s.arms, SwitchValue(s)) = 0

\* the second of two cases, a string, was entered past a first case with
\* another literal, in a switch with a default arm
C29_Witness ==
    /\ StepInFrame
    /\ \E n \in SwitchesHere :
          LET s == parser.switches[n]
          IN /\ Len(s.arms) = 3
             /\ s.arms[3].is_default
             /\ s.arms[2].literal.type = "TOKEN_STRING"
             /\ s.arms[1].literal.type = "TOKEN_NIL"
             /\ ip = s.arms[2].body
             /\ last.ip < ip

(***************************************************************************)
(* SpecFor: vm_run_source on a fresh VM, the source a for loop with each   *)
(* kind of initializer, with and without a condition, an increment and a   *)
(* continue in the body, and a for loop in a for loop.                     *)
(***************************************************************************)
ForInitializers ==
    {<<";">>, <<"var", "j", "=", "0", ";">>, <<"c", "=", "0", ";">>}

ForConditions == {<<";">>, <<"c", "<", "3", ";">>}

ForIncrements == {<< >>, <<"c", "=", "c", "+", "1">>}

ForBodies ==
    {<<"{", "c", "=", "c", "+", "1", ";", "\n",
       "if", "(", "c", "==", "2", ")", "continue", ";", "\n",
       "if", "(", "c", ">", "2", ")", "break", ";", "\n",
       "print", "c", ";", "}">>,
     <<"{", "c", "=", "c", "+", "1", ";", "\n",
       "if", "(", "c", ">", "2", ")", "break", ";", "\n",
       "print", "c", ";", "}">>}

ForPrograms ==
    {<<"var", "c", "=", "0", ";", "\n", "for", "(">> \o initializer \o condition
       \o increment \o <<")">> \o body \o <<"\n", "print", "c", ";">> :
        initializer \in ForInitializers, condition \in ForConditions,
        increment \in ForIncrements, body \in ForBodies}
    \cup
    {<<"fun", "g", "(", "a", ")", "{", "return", "a", "+", "1", ";", "}", "\n",
       "for", "(", "var", "b", "=", "0", ";", "b", "<", "2", ";", "b", "=", "g",
       "(", "b", ")", ")", "{", "\n",
       "for", "(", "var", "j", "=", "0", ";", "j", "<", "2", ";", "j", "=", "j",
       "+", "1", ")", "{", "\n",
       "if", "(", "j", "==", "0", ")", "continue", ";", "\n",
       "if", "(", "b", "==", "1", ")", "continue", "2", ";", "\n",
       "print", "j", ";", "}", "}">>}

NextFor ==
    \/ \E words \in ForPrograms : CompileStart(words)
    \/ CompileStep
    \/ RunStart
    \/ Run
    \/ Exit

SpecFor == Init /\ [][NextFor]_vars

\* the for loops of the function of the running frame
ForsHere ==
    IF pc = "run" /\ source # << >>
    THEN {n \in 1..Len(parser.fors) : parser.fors[n].function = frame_function(VM, frame)}
    ELSE {}

InInitializer(f, addr) == f.start <= addr /\ addr < f.condition

\* the condition expression with its exit jump and the jump over the increment
InCondition(f, addr) ==
    f.condition <= addr /\ addr < (IF f.increment # SIZE_MAX THEN f.increment ELSE f.body)

\* the increment expression with the jump back to the condition
InIncrement(f, addr) == f.increment # SIZE_MAX /\ f.increment <= addr /\ addr < f.body

\* the body with the jump back behind it
InBody(f, addr) == f.body <= addr /\ addr < f.body_end

\* C30: in a compiled for loop, the body is left, at its end or by continue,
\* only for the increment (for the condition where there is no increment),
\* or for code outside the loop; the increment is entered only at its
\* beginning and only from the body, runs forward, and is left only for the
\* condition; the condition is entered only at its beginning, from the
\* initializer, from in front of the loop, from the increment, or from the
\* body where there is no increment; the body is entered only at its
\* beginning and not from the increment; and the initializer is entered only
\* at its beginning and only from outside the loop.
C30_ForLoop ==
    \A n \in ForsHere :
        LET f == parser.fors[n]
            outside(addr) == addr < f.start \/ addr >= f.end
        IN StepInFrame =>
              /\ (InBody(f, last.ip) /\ ~InBody(f, ip)) =>
                     \/ ip = (IF f.increment # SIZE_MAX THEN f.increment ELSE f.condition)
                     \/ ip >= f.body_end
                     \/ ip < f.start
              /\ InIncrement(f, last.ip) =>
                     \/ InIncrement(f, ip) /\ ip > last.ip
                     \/ ip = f.condition
              /\ (~InIncrement(f, last.ip) /\ InIncrement(f, ip)) =>
                     ip = f.increment /\ InBody(f, last.ip)
              /\ (~InCondition(f, last.ip) /\ InCondition(f, ip)) =>
                     /\ ip = f.condition
                     /\ \/ InInitializer(f, last.ip)
                        \/ outside(last.ip)
                        \/ InIncrement(f, last.ip)
                        \/ f.increment = SIZE_MAX /\ InBody(f, last.ip)
              /\ (~InBody(f, last.ip) /\ InBody(f, ip)) =>
                     /\ ip = f.body
                     /\ ~InIncrement(f, last.ip)
                     /\ \/ InCondition(f, last.ip)
                        \/ f.condition = f.body /\ (InInitializer(f, last.ip) \/ outside(last.ip))
              /\ (~InInitializer(f, last.ip) /\ InInitializer(f, ip)) =>
                     ip = f.start /\ outside(last.ip)
              /\ (InInitializer(f, last.ip) /\ ~InInitializer(f, ip)) =>
                     ip = f.condition

\* a continue in the body of a loop with an initializer, a condition and an
\* increment has jumped to the increment
C30_Witness ==
    /\ StepInFrame
    /\ last.opcode = OP_JUMP
    /\ \E n \in ForsHere :
          LET f == parser.fors[n]
          IN /\ f.increment # SIZE_MAX
             /\ f.start < f.condition
             /\ f.condition < f.increment
             /\ InBody(f, last.ip)
             /\ last.ip + 3 < f.body_end
             /\ ip = f.increment

(***************************************************************************)
(* Claims about the instruction pointer of the frames.                     *)
(***************************************************************************)
\* vm_run has returned a runtime error in the last step
LastRuntimeError ==
    /\ last.op = "vm_run"
    /\ pc = "done"
    /\ result = "RUN_RUNTIME_ERROR"
    /\ ~aborted

\* the last step was a CALL or a RETURN after which vm_run goes on
LastFrameSwitch ==
    /\ last.op = "vm_run"
    /\ pc = "run"
    /\ ~aborted
    /\ last.opcode \in {OP_CALL, OP_RETURN}

\* C31: when vm_run returns a runtime error, the ip stored in the active
\* frame is the ip of the dispatch loop, and for every frame ip - code - 1 is
\* an offset into the code of the frame's chunk for which the chunk has a
\* line, so that the trace that was printed has a line for each frame; behind
\* a CALL and behind a RETURN the ip stored in the active frame is the ip of
\* the dispatch loop, and a CALL has stored the ip behind its operand in the
\* frame it was executed in.
C31_StoredIp ==
    /\ LastRuntimeError =>
          /\ frames[frame].ip = ip
          /\ frame = frame_count
          /\ \A k \in 1..frame_count :
                /\ frames[k].ip - 1 >= 0
                /\ frames[k].ip - 1 < Len(frame_chunk(VM, k).code)
                /\ chunk_get_line_for_offset(frame_chunk(VM, k), frames[k].ip - 1) # 0
          /\ Len(out) > 0
          /\ out[Len(out)].to = "stderr"
          /\ Len(out[Len(out)].trace) = frame_count
    /\ LastFrameSwitch =>
          /\ frames[frame].ip = ip
          /\ frame = frame_count
          /\ last.opcode = OP_CALL => frames[last.frame].ip = last.ip + 2

\* a call in a frame above the script's has reported a runtime error
C31_Witness ==
    /\ LastRuntimeError
    /\ last.opcode = OP_CALL
    /\ frame_count >= 2
    /\ frames[1].ip > 2

(***************************************************************************)
(* Claims about the load and the keys of a table, under SpecTable.         *)
(***************************************************************************)
\* the buckets with neither an entry nor a tombstone
EmptyBuckets(table) == {i \in 1..table.capacity : table.entries[i] = EMPTY_ENTRY}

\* a step of SpecTable that is a table_set: no key of the map is lost
TableSetNext == \A k \in TableKeys : abstract[k].found => abstract'[k].found

\* C32: count <= 0.75 * capacity after every table_set and table_delete, so
\* that a table with buckets has a bucket with neither an entry nor a
\* tombstone and the probes of find_entry and find_entry_by_string end at a
\* bucket of the table; and a step changes the capacity only if it is a
\* table_set with count + 1 > 0.75 * capacity, which it does whenever it is
\* one, to 8 for less than 8 buckets and to twice the capacity otherwise.
C32_LoadFactor ==
    /\ [](pc = "table" =>
            /\ 4 * globals.count <= 3 * globals.capacity
            /\ globals.capacity > 0 => EmptyBuckets(globals) # {}
            /\ \A k \in TableKeys :
                  find_entry(root.objects, globals, k) \in 0..(globals.capacity - 1)
            /\ \A w \in TableKeyWords :
                  find_entry_by_string(root.objects, globals, Ascii[w])
                      \in 0..(globals.capacity - 1))
    /\ [][pc = "table" =>
            /\ globals'.capacity # globals.capacity =>
                  /\ TableSetNext
                  /\ 4 * (globals.count + 1) > 3 * globals.capacity
                  /\ globals'.capacity = (IF globals.capacity < 8 THEN 8
                                          ELSE 2 * globals.capacity)
            /\ (TableSetNext /\ 4 * (globals.count + 1) > 3 * globals.capacity) =>
                  globals'.capacity # globals.capacity]_vars

\* a table_set has grown the table of 8 buckets holding 6 entries and
\* tombstones, and the table holds tombstones again
C32_Witness ==
    /\ pc = "table"
    /\ globals.capacity = 16
    /\ TombstoneBuckets(globals) # {}
    /\ globals.count >= 8

\* the buckets the probe for a key looks at before it reaches bucket i
\* (buckets are numbered from 1 here): from the bucket of its hash on
ProbedBefore(table, home, i) ==
    {j \in 1..table.capacity :
        (j - 1 - home) % table.capacity < (i - 1 - home) % table.capacity}

\* C33: after any sequence of table_set and table_delete calls, with the
\* rehash of a table_set that grows the table, no two buckets hold equal
\* keys.
C33_NoDuplicateKeys ==
    pc = "table" =>
        \A i \in ActiveBuckets(globals), j \in ActiveBuckets(globals) :
            values_equal(globals.entries[i].key, globals.entries[j].key) => i = j

\* a key that was set holds the value true in a bucket behind a tombstone
\* of its probe sequence
C33_Witness ==
    /\ pc = "table"
    /\ \E i \in ActiveBuckets(globals) :
          /\ globals.entries[i].key \in TableKeys
          /\ globals.entries[i].value = BOOL_VALUE(TRUE)
          /\ \E j \in ProbedBefore(globals,
                                   UInt32Mod(hash_value(root.objects, globals.entries[i].key),
                                             globals.capacity), i) :
                globals.entries[j] = TOMBSTONE


(***************************************************************************)
(* Claims about the resolution of names and about assignment.              *)
(***************************************************************************)
\* the next step of compile is variable, on an identifier that is read
VariableReadNext ==
    /\ pc = "compile" /\ control # << >>
    /\ Head(control).fn = "variable" /\ Head(control).at = 0
    /\ ~(Head(control).locals.can_assign /\ check(parser, "TOKEN_EQUAL"))

\* the locals, numbered from 1, that carry this name
Named(locals, name) == {i \in 1..Len(locals) : locals[i].name.lexeme = name.lexeme}

\* the one declared last
Latest(S) == CHOOSE i \in S : \A j \in S : j <= i

\* the enclosing functions that hold a local of this name
Outer(P, name) ==
    {c \in 1..(Len(P.compilers) - 1) : Named(P.compilers[c].locals, name) # {}}

\* the bytes the step appends to the chunk of the current function
Emitted ==
    SubSeq(get_chunk(parser').code, Len(get_chunk(parser).code) + 1,
           Len(get_chunk(parser').code))

\* the local behind upvalue u of the function of compiler c
RECURSIVE Captured(_, _, _)
Captured(P, c, u) ==
    IF u + 1 > Len(P.compilers[c].upvalues) THEN [compiler |-> 0, slot |-> 0]
    ELSE IF P.compilers[c].upvalues[u + 1].is_local
    THEN [compiler |-> c - 1, slot |-> P.compilers[c].upvalues[u + 1].index]
    ELSE Captured(P, c - 1, P.compilers[c].upvalues[u + 1].index)

\* the constant at this index of the chunk is the string of this name
NamesGlobal(P, index, name) ==
    /\ index + 1 <= Len(get_chunk(P).values)
    /\ get_chunk(P).values[index + 1].type = "OBJECT"
    /\ P.root.objects[get_chunk(P).values[index + 1].as].type = "OBJECT_TYPE_STRING"
    /\ P.root.objects[get_chunk(P).values[index + 1].as].chars = Ascii[name.lexeme]

\* the step resolved the name in the order local, upvalue, global
ResolvedInOrder ==
    LET name == parser.previous
        here == Named(get_compiler(parser).locals, name)
        outer == Outer(parser, name)
    IN /\ here # {} => Emitted = <<OP_GET_LOCAL, Latest(here) - 1>>
       /\ (here = {} /\ outer # {}) =>
             /\ Len(Emitted) = 2 /\ Emitted[1] = OP_GET_UPVALUE
             /\ Captured(parser', Len(parser.compilers), Emitted[2]) =
                    [compiler |-> Latest(outer),
                     slot |-> Latest(Named(parser.compilers[Latest(outer)].locals, name)) - 1]
       /\ (here = {} /\ outer = {}) =>
             /\ Len(Emitted) = 2 /\ Emitted[1] = OP_GET_GLOBAL
             /\ NamesGlobal(parser', Emitted[2], name)

\* C34: a variable reference resolves to the local of that name declared
\* last among those in scope in the current function; only if there is
\* none, to an upvalue found through the enclosing functions; and only if
\* there is none, to a global.  A scope that has ended has taken its locals
\* with it, so the name resolves to the outer variable again.
C34_ResolutionOrder ==
    [][VariableReadNext => (~parser'.aborted /\ ResolvedInOrder)]_vars


(***************************************************************************)
(* Assignments, under SpecAssign: a target a that is a local declared by   *)
(* var or by const, a parameter, the name of a local function or a global, *)
(* next to a local or global b declared by var, in statements that put an  *)
(* '=' behind operands of each kind.                                       *)
(***************************************************************************)
AssignStatements ==
    {<<"a", "=", "2", ";">>,
     <<"a", "=", "b", "=", "2", ";">>,
     <<"b", "*", "a", "=", "2", ";">>,
     <<"-", "a", "=", "2", ";">>,
     <<"(", "a", ")", "=", "2", ";">>,
     <<"b", "or", "a", "=", "2", ";">>,
     <<"b", "?", "a", "=", "2", ":", "3", ";">>,
     <<"b", "?", "1", ":", "a", "=", "2", ";">>}

AssignPrograms ==
    {<<"{", "var", "b", "=", "0", ";">> \o declared_a \o assigns
       \o <<"print", "a", ";", "}">> :
        declared_a \in {<<"var", "a", "=", "1", ";">>, <<"const", "a", "=", "1", ";">>,
                         <<"fun", "a", "(", ")", "{", "}">>},
        assigns \in AssignStatements}
    \cup
    {<<"fun", "f", "(", "a", ")", "{", "var", "b", "=", "0", ";">> \o assigns
       \o <<"print", "a", ";", "}", "f", "(", "1", ")", ";">> :
        assigns \in AssignStatements}
    \cup
    {<<"var", "b", "=", "0", ";", "var", "a", "=", "1", ";">> \o assigns
       \o <<"print", "a", ";">> :
        assigns \in AssignStatements}

NextAssign ==
    \/ \E words \in AssignPrograms : CompileStart(words)
    \/ CompileStep
    \/ RunStart
    \/ Run
    \/ Exit

SpecAssign == Init /\ [][NextAssign]_vars

\* the program declares this name by const; the programs of SpecAssign
\* declare each name once
ConstDeclared(name) ==
    \E i \in 1..(Len(source) - 1) : source[i] = "const" /\ source[i + 1] = name.lexeme

\* the next step of compile is variable, on an identifier that names a
\* local of the current function and is followed by '=' where an
\* assignment can be
AssignLocalNext ==
    /\ pc = "compile" /\ control # << >>
    /\ Head(control).fn = "variable" /\ Head(control).at = 0
    /\ Head(control).locals.can_assign /\ check(parser, "TOKEN_EQUAL")
    /\ Named(get_compiler(parser).locals, parser.previous) # {}

\* the next step of compile is the end of variable for such an assignment,
\* with its right-hand side compiled
SetLocalNext ==
    /\ pc = "compile" /\ control # << >>
    /\ Head(control).fn = "variable" /\ Head(control).at = 1

\* the slot of the target
AssignSlot == Latest(Named(get_compiler(parser).locals, parser.previous)) - 1

\* C35: an assignment whose target resolves to a const local is reported as
\* a compile error; an assignment whose target resolves to a local that was
\* not declared const is accepted, and emits SET_LOCAL for the slot of that
\* local after its right-hand side.
C35_AssignLocal ==
    [][/\ AssignLocalNext =>
             /\ ~parser'.aborted
             /\ ConstDeclared(parser.previous) => parser'.had_error
             /\ ~ConstDeclared(parser.previous) =>
                   /\ parser'.errors = parser.errors
                   /\ parser'.had_error = parser.had_error
             /\ Len(control') > 1
             /\ control'[2] = Activation("variable", 1, [index |-> AssignSlot])
       /\ SetLocalNext => Emitted = <<OP_SET_LOCAL, Head(control).locals.index>>
      ]_vars


\* the length of the instruction at this offset of a chunk: its opcode, its
\* operands and, behind a CLOSURE, the pairs of the upvalues of the function
InstructionLength(objects, chunk, offset) ==
    LET opcode == chunk.code[offset + 1]
    IN 1 + operand_size(opcode)
         + IF /\ opcode = OP_CLOSURE
              /\ offset + 2 <= Len(chunk.code)
              /\ chunk.code[offset + 2] + 1 <= Len(chunk.values)
              /\ chunk.values[chunk.code[offset + 2] + 1].type = "OBJECT"
           THEN 2 * objects[chunk.values[chunk.code[offset + 2] + 1].as].upvalue_count
           ELSE 0

\* the offsets of the first bytes of the instructions of a chunk, from this
\* offset on
RECURSIVE InstructionStarts(_, _, _)
InstructionStarts(objects, chunk, offset) ==
    IF offset >= Len(chunk.code) THEN {}
    ELSE {offset} \cup InstructionStarts(objects, chunk,
                                         offset + InstructionLength(objects, chunk, offset))

\* the functions among these objects
Functions(objects) ==
    {o \in 1..Len(objects) : objects[o].type = "OBJECT_TYPE_FUNCTION"}

SetOpcodes ==
    {OP_SET_GLOBAL, OP_SET_GLOBAL_LONG, OP_SET_LOCAL, OP_SET_LOCAL_LONG,
     OP_SET_UPVALUE, OP_SET_UPVALUE_LONG}

\* the instructions of all functions that set a variable
SetInstructions(objects) ==
    {<<o, offset>> \in UNION {{o} \X InstructionStarts(objects, objects[o].chunk, 0) :
                                 o \in Functions(objects)} :
        objects[o].chunk.code[offset + 1] \in SetOpcodes}

\* compile has returned
CompileReturned == pc = "compile" /\ control = << >> /\ ~aborted

\* the '=' at position i of the source follows an operand that was parsed
\* at a precedence above PREC_ASSIGNMENT: the right operand of an operator,
\* the then branch of a conditional, or a parenthesis
FollowsOperand(i) ==
    /\ i > 2 /\ i <= Len(source) /\ source[i] = "="
    /\ \/ source[i - 2] \in {"*", "-", "or", "?"}
       \/ source[i - 1] = ")"

\* compile reported this message at an '='
ReportedAtEqual(message) ==
    \E e \in 1..Len(parser.errors) :
        parser.errors[e].at = "=" /\ parser.errors[e].message = message

\* variable takes an '=' as an assignment only when it was called with
\* can_assign, and it is called with can_assign exactly by a
\* parse_precendence of a precedence not above PREC_ASSIGNMENT
AssignOnlyWhenAssignable ==
    (/\ pc = "compile" /\ control # << >>
     /\ Head(control).fn = "variable" /\ Head(control).at = 0) =>
        /\ Len(control) > 1 /\ control[2].fn = "parse_precendence"
        /\ Head(control).locals.can_assign = (control[2].locals.prec <= PREC_ASSIGNMENT)
        /\ Len(control') > Len(control) =>
              /\ Head(control).locals.can_assign /\ check(parser, "TOKEN_EQUAL")
              /\ parser'.previous.type = "TOKEN_EQUAL"

CaptureBodies ==
    {<<"return", "1", ";">>,
     <<"return", "a", "+", "a", ";">>,
     <<"return", "b", "+", "a", "+", "b", ";">>,
     <<"fun", "j", "(", ")", "{", "return", "a", "+", "b", "+", "a", ";", "}",
       "return", "j", "(", ")", ";">>,
     <<"var", "c", "=", "a", ";",
       "fun", "j", "(", ")", "{", "return", "c", "+", "b", "+", "c", ";", "}",
       "return", "j", "(", ")", ";">>}

CapturePrograms ==
    {<<"fun", "f", "(", ")", "{", "var", "a", "=", "1", ";", "var", "b", "=", "2", ";",
       "fun", "g", "(", ")", "{">> \o body
       \o <<"}", "return", "g", ";", "}", "print", "f", "(", ")", "(", ")", ";">> :
        body \in CaptureBodies}

NextCapture ==
    \/ \E words \in CapturePrograms : CompileStart(words)
    \/ CompileStep
    \/ RunStart
    \/ Run
    \/ Exit

SpecCapture == Init /\ [][NextCapture]_vars

\* the upvalues of a compiler are all different, and the function of the
\* compiler counts them
UpvaluesDistinct(P) ==
    \A c \in 1..Len(P.compilers) :
        /\ \A i, j \in 1..Len(P.compilers[c].upvalues) :
              P.compilers[c].upvalues[i] = P.compilers[c].upvalues[j] => i = j
        /\ P.root.objects[P.compilers[c].function].upvalue_count
              = Len(P.compilers[c].upvalues)

\* the next step of compile ends a function and emits its CLOSURE
ClosureNext ==
    /\ pc = "compile" /\ control # << >>
    /\ Head(control).fn = "function" /\ Head(control).at = 1

\* the bytes that step appends to the chunk of the enclosing function
ClosureEmitted ==
    SubSeq(get_chunk(parser').code,
           Len(parser.root.objects[parser.compilers[Len(parser.compilers) - 1].function]
                   .chunk.code) + 1,
           Len(get_chunk(parser').code))

\* they are CLOSURE with the function as its constant and one pair for each
\* upvalue of the compiler, as many as the function counts
ClosureHasPairs ==
    LET upvalues == get_compiler(parser).upvalues
        func == get_compiler(parser).function
    IN /\ Len(parser'.compilers) = Len(parser.compilers) - 1
       /\ Len(ClosureEmitted) = 2 + 2 * parser'.root.objects[func].upvalue_count
       /\ ClosureEmitted[1] = OP_CLOSURE
       /\ get_chunk(parser').values[ClosureEmitted[2] + 1] = OBJECT_VALUE(func)
       /\ Len(upvalues) = parser'.root.objects[func].upvalue_count
       /\ \A i \in 1..Len(upvalues) :
             /\ ClosureEmitted[2 * i + 1] = (IF upvalues[i].is_local THEN 1 ELSE 0)
             /\ ClosureEmitted[2 * i + 2] = upvalues[i].index

\* the last step was the CLOSURE instruction
LastClosure ==
    /\ pc \in {"run", "done"} /\ last.op = "vm_run" /\ last.opcode = OP_CLOSURE
    /\ ~aborted

\* the function it made a closure of
LastClosureFunction ==
    frame_chunk(last.vm, last.frame).values[READ_BYTE(last.vm, last.frame, last.ip + 1) + 1].as

\* C37: the upvalue list of a compiler holds no two entries with the same
\* (is_local, index); upvalue_count of a function is the number of pairs
\* emitted behind the CLOSURE instruction that creates it, and the number
\* of pairs the CLOSURE instruction reads, so that ip is at the next
\* instruction afterwards and every upvalue of the closure is filled.
C37_UpvaluePairs ==
    /\ []((pc = "compile" /\ ~aborted) => UpvaluesDistinct(parser))
    /\ [][ClosureNext /\ ~parser'.aborted => ClosureHasPairs]_vars
    /\ [](LastClosure =>
            /\ frame = last.frame
            /\ ip = last.ip + 2 + 2 * root.objects[LastClosureFunction].upvalue_count
            /\ ip \in InstructionStarts(root.objects, frame_chunk(VM, frame), 0)
            /\ IS_OBJECT_TYPE(root.objects, vm_stack_peek(VM, 0), "OBJECT_TYPE_CLOSURE")
            /\ root.objects[vm_stack_peek(VM, 0).as].function = LastClosureFunction
            /\ Len(root.objects[vm_stack_peek(VM, 0).as].upvalues)
                  = root.objects[LastClosureFunction].upvalue_count
            /\ \A u \in 1..Len(root.objects[vm_stack_peek(VM, 0).as].upvalues) :
                  root.objects[vm_stack_peek(VM, 0).as].upvalues[u] # NULL)

\* the CLOSURE instruction has made a closure with two upvalues, one of a
\* local and one of an upvalue of the enclosing function with the same index
C37_Witness ==
    /\ LastClosure
    /\ root.objects[LastClosureFunction].upvalue_count = 2
    /\ READ_BYTE(last.vm, last.frame, last.ip + 2) = 1
    /\ READ_BYTE(last.vm, last.frame, last.ip + 4) = 0
    /\ READ_BYTE(last.vm, last.frame, last.ip + 3) = READ_BYTE(last.vm, last.frame, last.ip + 5)


(***************************************************************************)
(* Claims about the jumps of a compiled chunk.                             *)
(***************************************************************************)
JumpOpcodes == {OP_JUMP, OP_JUMP_IF_TRUE, OP_JUMP_IF_FALSE}

\* the offsets of the jump instructions of a chunk
JumpsOf(objects, chunk) ==
    {offset \in InstructionStarts(objects, chunk, 0) : chunk.code[offset + 1] \in JumpOpcodes}

\* the displacement of the jump at this offset
DisplacementAt(chunk, offset) ==
    IF offset + 3 <= Len(chunk.code)
    THEN jump_displacement(SubSeq(chunk.code, offset + 1, offset + 3))
    ELSE 0

\* where the jump at this offset leads
JumpTarget(chunk, offset) == offset + 3 + DisplacementAt(chunk, offset)

\* compile has returned a function
CompileSucceeded == CompileReturned /\ parser.returned # NULL

\* emit_jump_to or patch_jump_from has written the displacement of the jump
\* at this offset of the chunk of this function
Patched(P, o, offset) ==
    \E i \in 1..Len(P.jumps) :
        /\ P.jumps[i].function = o /\ P.jumps[i].from = offset
        /\ P.jumps[i].reported = 0
        /\ P.jumps[i].after = SubSeq(P.root.objects[o].chunk.code, offset + 1, offset + 3)

\* C38: in the chunks of a successful compile, the target of every jump
\* instruction, its offset + 3 + its displacement, is the offset of the
\* first byte of an instruction of the same chunk; no jump is left with
\* its placeholder unpatched, and none leads into an operand or out of
\* the code.
C38_JumpTargets ==
    CompileSucceeded =>
        \A o \in Functions(parser.root.objects) :
            \A offset \in JumpsOf(parser.root.objects, parser.root.objects[o].chunk) :
                /\ offset + 3 <= Len(parser.root.objects[o].chunk.code)
                /\ JumpTarget(parser.root.objects[o].chunk, offset)
                      \in InstructionStarts(parser.root.objects, parser.root.objects[o].chunk, 0)
                /\ Patched(parser, o, offset)

\* a successful compile of a chunk with a jump back, a jump forward and a
\* conditional jump
C38_Witness ==
    /\ CompileSucceeded
    /\ \E o \in Functions(parser.root.objects) :
          LET chunk == parser.root.objects[o].chunk
          IN /\ \E offset \in JumpsOf(parser.root.objects, chunk) :
                   chunk.code[offset + 1] = OP_JUMP /\ DisplacementAt(chunk, offset) < 0
             /\ \E offset \in JumpsOf(parser.root.objects, chunk) :
                   chunk.code[offset + 1] = OP_JUMP /\ DisplacementAt(chunk, offset) > 0
             /\ \E offset \in JumpsOf(parser.root.objects, chunk) :
                   chunk.code[offset + 1] = OP_JUMP_IF_FALSE


(***************************************************************************)
(* The capacities of the compiler, under SpecLimits: as many nested loops  *)
(* and break statements of one loop as the compiler holds, and one more of *)
(* each and of the arms of a switch.                                       *)
(***************************************************************************)
\* words, n times
Repeat(words, n) == [i \in 1..(n * Len(words)) |-> words[((i - 1) % Len(words)) + 1]]

NestedLoops(n) ==
    Repeat(<<"while", "(", "false", ")">>, n) \o <<"{", "}", "\n", "print", "1", ";">>

BreaksOfLoop(n) ==
    <<"while", "(", "true", ")", "{">> \o Repeat(<<"break", ";">>, n)
        \o <<"}", "\n", "print", "1", ";">>

ArmsOfSwitch(n) ==
    <<"switch", "(", "1", ")", "{">> \o Repeat(<<"case", "0", ":">>, n)
        \o <<"}", "\n", "print", "1", ";">>

LimitPrograms ==
    {NestedLoops(n) : n \in {COMPILER_MAX_LOOPS, COMPILER_MAX_LOOPS + 1}}
    \cup {BreaksOfLoop(n) : n \in {COMPILER_MAX_BREAKS, COMPILER_MAX_BREAKS + 1}}
    \cup {ArmsOfSwitch(jump_to_end_max + 1)}

NextLimits ==
    \/ \E words \in LimitPrograms : CompileStart(words)
    \/ CompileStep
    \/ RunStart
    \/ Run
    \/ Exit

SpecLimits == Init /\ [][NextLimits]_vars

\* the next step of compile begins a loop in a function whose loop stack is
\* full
LoopBeyondCapacity ==
    /\ pc = "compile" /\ control # << >>
    /\ Head(control).fn = "while_statement" /\ Head(control).at = 0
    /\ Len(get_compiler(parser).loops) >= COMPILER_MAX_LOOPS

\* the next step of compile is a break statement for a loop whose break
\* list is full
BreakBeyondCapacity ==
    /\ LoopExitNext /\ check(parser, "TOKEN_BREAK")
    /\ LoopExitOffset >= 1 /\ LoopExitOffset <= Len(get_compiler(parser).loops)
    /\ Len(get_compiler(parser).loops[Len(get_compiler(parser).loops) - LoopExitOffset + 1]
               .break_jumps) >= COMPILER_MAX_BREAKS

\* the next step of compile ends an arm of a switch whose list of jumps to
\* the end is full
ArmBeyondCapacity ==
    /\ pc = "compile" /\ control # << >>
    /\ Head(control).fn = "switch_statement" /\ Head(control).at = 3
    /\ Len(Head(control).locals.jump_to_end) >= jump_to_end_max

\* C39: a program with more arms in a switch than the 128 supported, more
\* break statements for one loop than the 16 of its break list, or more
\* nested loops than the 16 of the loop stack is reported as a compile
\* error, and no assert() fails.
C39_CapacityErrors ==
    [][(LoopBeyondCapacity \/ BreakBeyondCapacity \/ ArmBeyondCapacity) =>
          (~parser'.aborted /\ parser'.had_error)]_vars


(***************************************************************************)
(* Claims about the stacks when vm_run_source returns.                     *)
(***************************************************************************)
\* the words of the source
Words == {source[i] : i \in 1..Len(source)}

\* C1: when vm_run returns RUN_OK, at the RETURN of the script, the value
\* stack is empty and frame_count is 0, and the asserts of vm_run_source on
\* both hold, whatever statements and expressions the program is made of.
C1_CleanExit ==
    result = "RUN_OK" => (sp = 0 /\ frame_count = 0 /\ ~aborted)

\* a program with a for loop, continue, a conditional and logical operators
\* has run to its end
C1_Witness ==
    /\ pc = "done" /\ result = "RUN_OK" /\ sp = 0 /\ frame_count = 0
    /\ {"for", "continue", "?", "or", "and", "if"} \subseteq Words

\* C8: when vm_run_source has returned RUN_RUNTIME_ERROR, frame_count is 0
\* and sp is the base of the value stack.
C8_ResetOnError ==
    result = "RUN_RUNTIME_ERROR" => (frame_count = 0 /\ sp = 0)

\* C9: once a compile error is reported, compile goes on to the end of the
\* source, neither ended by an assert nor caught in a loop, and returns NULL
\* with the EOF token consumed; vm_run_source then returns RUN_COMPILE_ERROR
\* with the value stack, the frames and the globals as they were and no
\* instruction executed.
C9_CompileError ==
    /\ (pc = "compile" /\ parser.had_error) => (~parser.aborted /\ ~parser.hung)
    /\ (CompileReturned /\ parser.had_error) =>
          (parser.returned = NULL /\ parser.previous.type = "TOKEN_EOF")
    /\ result = "RUN_COMPILE_ERROR" =>
          /\ last.op \in {"vm_run_source", "main"}
          /\ sp = 0 /\ stack = vm_create.stack
          /\ frame_count = 0 /\ frames = vm_create.frames
          /\ globals = vm_create.globals

(***************************************************************************)
(* Claims about the open upvalues and the globals while vm_run runs.       *)
(***************************************************************************)
\* C3: between two instructions of vm_run, every upvalue on the list of
\* open upvalues has a target below sp: no POP, RETURN or cleanup of a break
\* or continue has removed a slot that an open upvalue targets.
C3_OpenBelowTop ==
    pc = "run" => \A i \in 1..Len(OpenTargets(root)) : OpenTargets(root)[i] < sp

\* the last step of vm_run was a SET_GLOBAL
LastSetGlobal ==
    /\ last.op = "vm_run"
    /\ last.opcode \in {OP_SET_GLOBAL, OP_SET_GLOBAL_LONG}
    /\ ~aborted

\* the name operand of that SET_GLOBAL
LastGlobalName ==
    READ_CONST(last.vm, last.frame, last.ip + 1, last.opcode = OP_SET_GLOBAL_LONG)

\* the strings other than that name
OtherNames ==
    {OBJECT_VALUE(o) : o \in {s \in 1..Len(root.objects) :
                                 root.objects[s].type = "OBJECT_TYPE_STRING"}}
    \ {LastGlobalName}

\* C7: a SET_GLOBAL of a name without a binding is a runtime error and
\* leaves the globals without a binding for the name; a SET_GLOBAL of a name
\* with a binding binds the name to the value on top of the stack and leaves
\* that value on the stack; the bindings of the other names stay.
C7_SetGlobal ==
    LastSetGlobal =>
        LET value == vm_stack_peek(last.vm, 0)
            before == table_get(last.vm.root.objects, last.vm.globals, LastGlobalName)
            after == table_get(root.objects, globals, LastGlobalName)
        IN /\ IF ~before.found
              THEN /\ result = "RUN_RUNTIME_ERROR" /\ pc = "done"
                   /\ has_runtime_error
                   /\ ~after.found
              ELSE /\ result = "NONE" /\ pc = "run"
                   /\ after.found /\ after.value = value
                   /\ sp = last.vm.sp /\ vm_stack_peek(VM, 0) = value
           /\ \A name \in OtherNames :
                 table_get(root.objects, globals, name)
                     = table_get(last.vm.root.objects, last.vm.globals, name)

\* the SET_GLOBAL of a name without a binding, in globals that hold the 3
\* a SET_GLOBAL has bound to another name before
C7_Witness ==
    /\ LastSetGlobal
    /\ result = "RUN_RUNTIME_ERROR"
    /\ ~table_get(last.vm.root.objects, last.vm.globals, LastGlobalName).found
    /\ \E name \in OtherNames :
          /\ table_get(root.objects, globals, name).found
          /\ table_get(root.objects, globals, name).value = NUMBER_VALUE(3)

(***************************************************************************)
(* SpecCall: vm_run_source on a fresh VM, the source a call of a value     *)
(* that is not a function, or the declaration of a function and calls of   *)
(* it with and without the number of arguments it expects.                 *)
(***************************************************************************)
CallPrograms ==
    {<<"1", "(", ")", ";">>,
     <<"nil", "(", "1", ")", ";">>,
     <<"\"a\"", "(", ")", ";">>,
     <<"var", "a", "=", "true", ";", "a", "(", "1", ",", "2", ")", ";">>,
     <<"fun", "f", "(", "a", ")", "{", "print", "a", ";", "}", "f", "(", ")", ";">>,
     <<"fun", "f", "(", ")", "{", "print", "1", ";", "}", "f", "(", "1", ")", ";">>,
     <<"fun", "f", "(", "a", ")", "{", "print", "a", ";", "}", "\n",
       "f", "(", "1", ")", ";", "f", "(", "1", ",", "2", ")", ";", "print", "3", ";">>,
     <<"fun", "f", "(", "a", ")", "{", "fun", "g", "(", "b", ",", "c", ")", "{",
       "print", "b", ";", "}", "g", "(", "1", ")", ";", "}", "\n",
       "f", "(", "1", ")", ";">>}

NextCall ==
    \/ \E words \in CallPrograms : CompileStart(words)
    \/ CompileStep
    \/ RunStart
    \/ Run
    \/ Exit

SpecCall == Init /\ [][NextCall]_vars

LastCalleeIsNative == IS_OBJECT_TYPE(last.vm.root.objects, LastCallee, "OBJECT_TYPE_NATIVE")

\* the value called is no closure and no native, or a closure that expects
\* another number of arguments
LastCallRejected ==
    /\ LastCall
    /\ ~aborted
    /\ IF LastCalleeIsClosure THEN LastCalleeArity # LastCallArgCount
       ELSE ~LastCalleeIsNative

\* C10: a CALL of a value that is neither a closure nor a native, or of a
\* closure with an arity other than the argument count, ends the run with a
\* runtime error; it pushes no call frame, leaves the value stack as it is
\* and no instruction of the callee is executed.
C10_CallRejected ==
    LastCallRejected =>
        /\ result = "RUN_RUNTIME_ERROR" /\ pc = "done"
        /\ has_runtime_error
        /\ LastError = IF LastCalleeIsClosure
                       THEN "Expected %zu arguments but got %zu."
                       ELSE "Can only call functions and classes."
        /\ frame_count = last.vm.frame_count
        /\ Len(frames) = Len(last.vm.frames)
        /\ \A i \in 1..Len(frames) :
              /\ frames[i].closure = last.vm.frames[i].closure
              /\ frames[i].base_pointer = last.vm.frames[i].base_pointer
        /\ frame = last.frame
        /\ sp = last.vm.sp /\ stack = last.vm.stack

\* the call of a function of one parameter with two arguments, behind a call
\* of it with one, in the frame of the script
C10_Witness ==
    /\ LastCallRejected
    /\ LastCalleeIsClosure
    /\ LastCalleeArity = 1 /\ LastCallArgCount = 2
    /\ frame_count = 1
    /\ result = "RUN_RUNTIME_ERROR"
    /\ \E i \in 1..Len(out) : out[i].to = "stdout"

(***************************************************************************)
(* SpecShare: vm_run_source on a fresh VM, the source two functions that   *)
(* capture the same local, one that writes it and one that reads it,       *)
(* called while the local is on the stack and after its frame or its       *)
(* block has gone.                                                         *)
(***************************************************************************)
SharePrograms ==
    {\* a local of a function, written and read after the function returned
     <<"var", "a", ";", "var", "b", ";", "\n",
       "fun", "f", "(", ")", "{", "var", "c", "=", "0", ";", "\n",
       "fun", "g", "(", ")", "{", "c", "=", "c", "+", "1", ";", "}", "\n",
       "fun", "j", "(", ")", "{", "return", "c", ";", "}", "\n",
       "a", "=", "g", ";", "b", "=", "j", ";", "g", "(", ")", ";",
       "print", "j", "(", ")", ";", "print", "c", ";", "}", "\n",
       "f", "(", ")", ";", "a", "(", ")", ";", "print", "b", "(", ")", ";">>,
     \* a local of a block of the script, written by a function and in its
     \* slot
     <<"{", "var", "c", "=", "0", ";", "\n",
       "fun", "g", "(", ")", "{", "c", "=", "7", ";", "}", "\n",
       "fun", "j", "(", ")", "{", "return", "c", ";", "}", "\n",
       "g", "(", ")", ";", "print", "j", "(", ")", ";", "print", "c", ";", "\n",
       "c", "=", "2", ";", "print", "j", "(", ")", ";", "}">>,
     \* a local captured by a function and by a function in a function
     <<"fun", "f", "(", ")", "{", "var", "c", "=", "1", ";", "\n",
       "fun", "g", "(", ")", "{", "fun", "j", "(", ")", "{", "c", "=", "c", "+",
       "1", ";", "}", "j", "(", ")", ";", "return", "c", ";", "}", "\n",
       "fun", "z", "(", ")", "{", "return", "c", ";", "}", "\n",
       "print", "g", "(", ")", ";", "print", "z", "(", ")", ";", "return", "z",
       ";", "}", "\n",
       "print", "f", "(", ")", "(", ")", ";">>}

NextShare ==
    \/ \E words \in SharePrograms : CompileStart(words)
    \/ CompileStep
    \/ RunStart
    \/ Run
    \/ Exit

SpecShare == Init /\ [][NextShare]_vars

\* the last step of vm_run was the instruction, and no assert failed in it
LastInstruction(opcodes) ==
    /\ last.op = "vm_run"
    /\ last.opcode \in opcodes
    /\ ~aborted

\* the operand of the instruction of the last step
LastOperand ==
    READ_OPERAND(last.vm, last.frame, last.ip + 1, operand_size(last.opcode) = 4)

\* the upvalue a GET_UPVALUE or SET_UPVALUE of the last step names
LastUpvalue ==
    last.vm.root.objects[last.vm.frames[last.frame].closure].upvalues[(LastOperand % 256) + 1]

\* the closures that hold the upvalue
Holders(r, upvalue) ==
    {c \in 1..Len(r.objects) :
        /\ r.objects[c].type = "OBJECT_TYPE_CLOSURE"
        /\ \E k \in 1..Len(r.objects[c].upvalues) : r.objects[c].upvalues[k] = upvalue}

\* the open upvalues of a slot, listed or not
UpvaluesOf(r, target) ==
    {u \in AllUpvalues(r) : IsOpen(r, u) /\ r.objects[u].target = target}

\* the closure a CLOSURE has pushed holds, for each pair that names a local,
\* the one open upvalue of the slot of that local: the one that was open
\* before, when there was one
ClosureShares ==
    LET closure == root.objects[vm_stack_peek(VM, 0).as]
        base_pointer == last.vm.frames[last.frame].base_pointer
        is_local(k) == READ_BYTE(last.vm, last.frame, last.ip + 2 * k)
        index(k) == READ_BYTE(last.vm, last.frame, last.ip + 2 * k + 1)
    IN \A k \in 1..Len(closure.upvalues) :
          IF is_local(k) # 0
          THEN /\ UpvaluesOf(root, base_pointer + index(k)) = {closure.upvalues[k]}
               /\ UpvaluesOf(last.vm.root, base_pointer + index(k)) \subseteq {closure.upvalues[k]}
          ELSE closure.upvalues[k] =
                   last.vm.root.objects[last.vm.frames[last.frame].closure].upvalues[index(k) + 1]

\* C2: the closures that capture a local while its slot is live hold one
\* upvalue object: a slot never has two open upvalues, and a CLOSURE stores
\* the open upvalue of the slot.  What a SET_UPVALUE writes through the
\* upvalue is what a GET_UPVALUE reads through it, in whatever closure, and,
\* while the upvalue is open, what a GET_LOCAL of the slot reads; an upvalue
\* that is closed keeps the value.
C2_SharedUpvalue ==
    /\ \A u \in AllUpvalues(root) :
          IsOpen(root, u) => UpvaluesOf(root, root.objects[u].target) = {u}
    /\ LastInstruction({OP_CLOSURE}) => ClosureShares
    /\ LastInstruction({OP_SET_UPVALUE, OP_SET_UPVALUE_LONG}) =>
          /\ upvalue_read(VM, LastUpvalue) = vm_stack_peek(last.vm, 0)
          /\ IsOpen(root, LastUpvalue) =>
                stack_read(VM, root.objects[LastUpvalue].target) = vm_stack_peek(last.vm, 0)
          /\ sp = last.vm.sp
    /\ LastInstruction({OP_GET_UPVALUE, OP_GET_UPVALUE_LONG}) =>
          /\ vm_stack_peek(VM, 0) = upvalue_read(last.vm, LastUpvalue)
          /\ sp = last.vm.sp + 1
    /\ LastInstruction({OP_GET_LOCAL, OP_GET_LOCAL_LONG}) =>
          \A u \in UpvaluesOf(last.vm.root,
                              last.vm.frames[last.frame].base_pointer + LastOperand) :
              vm_stack_peek(VM, 0) = upvalue_read(last.vm, u)
    /\ last.op = "vm_run" =>
          \A u \in AllUpvalues(last.vm.root) :
              (IsOpen(last.vm.root, u) /\ ~IsOpen(root, u)) =>
                  upvalue_read(VM, u) = upvalue_read(last.vm, u)

\* a function reads 2 through a closed upvalue that two closures hold: the 0
\* of the local, incremented through the other closure once before and once
\* after the upvalue was closed
C2_Witness ==
    /\ LastInstruction({OP_GET_UPVALUE, OP_GET_UPVALUE_LONG})
    /\ ~IsOpen(root, LastUpvalue)
    /\ Cardinality(Holders(root, LastUpvalue)) = 2
    /\ vm_stack_peek(VM, 0) = NUMBER_VALUE(2)
    /\ frame_count = 2

=============================================================================
